---- MODULE Spec2Model ----
(***************************************************************************)
(* Model of report.py (Godot project -> Markdown context report): the      *)
(* reference-graph extraction engine.                                      *)
(*                                                                         *)
(* Strings the code computes on character by character (resource ids, raw  *)
(* references, paths) are sequences of one-character strings.  Python's    *)
(* None is the sentinel None below, which no sequence of single characters *)
(* can equal.  Filesystem paths are POSIX, without symbolic links, and are *)
(* held as the sequence of their components below "/".                     *)
(*                                                                         *)
(* The module holds one specification per component:                       *)
(*   SpecNorm   normalize_res_like_path / to_res_path / parse_script_value *)
(*   SpecGraph  generate_report's graph assembly and unused list           *)
(*   SpecScene  parse_tscn (line loop, then tree construction)             *)
(*   SpecConn   parse_tscn's line loop over every kind of heading          *)
(*   SpecGd     parse_gd's exported-variable pass                          *)
(***************************************************************************)
EXTENDS Integers, Sequences, FiniteSets, TLC

VARIABLES
    \* ---- SpecNorm: one call of a pure function and its re-application
    npc,           \* "normalize" | "normalized" | "renormalized" |
                   \* "script_value" | "script_value_done"
    raw,           \* normalize_res_like_path: raw
    base_dir,      \* normalize_res_like_path: base_dir (components)
    project_root,  \* normalize_res_like_path: project_root (components)
    ret1,          \* normalize(raw, base_dir, project_root)
    ret2,          \* normalize(ret1, base_dir, project_root)
    psv_in,        \* parse_script_value: [v, table]
    psv_ret,       \* parse_script_value: its return value
    \* ---- SpecGraph: generate_report, from the parse results to the unused list
    gpc,              \* the statement generate_report is at
    main_scene,       \* parse_project_godot: main scene (None when absent)
    autoloads,        \* parse_project_godot: autoload list
    editor_refs,      \* detect_editor_references
    resource_files,   \* collect_resource_files, as res:// ids
    script_results,   \* [res_path, class_name, words] per parsed script
    gi,               \* files of the current list already handled
    refs_left,        \* references the remaining files may still hold
    edges,            \* ReferenceGraph: source -> set of targets
    roots,
    used_by,          \* UsageIndex: target -> set of sources
    unused,           \* the unused list
    \* ---- SpecScene / SpecConn: one call of parse_tscn
    spc,              \* "lines" (the line loop) | "done" (returned)
    scene_path,       \* parse_tscn: scene_path (components)
    scene_text,       \* the lines of the file read so far
    nodes,            \* [hdr, props, idx] per flushed node block
    cur_node_hdr,     \* the open node block's heading attributes, or NoDict
    cur_node_props,   \* the open node block's properties, or NoDict
    order,            \* the next declaration index
    ext_id_to_path,   \* LocalIdTable: id -> path as written
    connections,      \* SceneConnection records
    warnings,
    path_to_node,     \* [path, node] per full path, in insertion order
    scene_root,       \* SceneParseResult.root: the root's full path, or None
    scene_references, \* SceneParseResult.references
    \* ---- SpecGd: the exported-variable pass of one call of parse_gd
    epc,              \* "lines" | "done" | "raised" (IndexError)
    gd_lines,         \* number of lines of the script read so far
    gd_raw,           \* the line read last
    pending,          \* decorator lines waiting for a declaration
    exports,          \* ExportedVar records
    discarded,        \* decorators dropped by pending = pending[-2:] so far
    \* ---- SpecProj: the line loop of one call of parse_project_godot
    ppc,              \* "start" | "top" | "block" | "derive" | "done"
    proj_lines,       \* lines: the lines of project.godot
    pi,               \* i: the number of lines consumed
    section,          \* the current section, or None
    data,             \* section -> key -> value, in insertion order
    block_key,        \* k of the value whose brace block is open
    block,            \* block: the lines of the open brace block
    bal,              \* bal: its brace balance
    proj_ret,         \* (main_scene, autoloads, input_map)
    \* ---- SpecFiles: generate_report's calls of parse_tscn and
    \* ---- parse_tres_references, one file after the other
    fpc,              \* "start" | "call" (between calls) | "scan" | "done"
    file_list,        \* scenes, then tres_files: [kind, lines] per file,
                      \* lines being the lines read so far
    fi,               \* files parsed so far
    file_ids,         \* ext_id_to_path of the call under way
    file_nodes,       \* node blocks of the call under way
    file_refs         \* the reference set each finished call returned

normVars == <<npc, raw, base_dir, project_root, ret1, ret2, psv_in, psv_ret>>
graphVars == <<gpc, main_scene, autoloads, editor_refs, resource_files,
               script_results, gi, refs_left, edges, roots, used_by, unused>>
sceneVars == <<spc, scene_path, scene_text, nodes, cur_node_hdr, cur_node_props,
               order, ext_id_to_path, connections, warnings, path_to_node,
               scene_root, scene_references>>
gdVars == <<epc, gd_lines, gd_raw, pending, exports, discarded>>
projVars == <<ppc, proj_lines, pi, section, data, block_key, block, bal,
              proj_ret>>
fileVars == <<fpc, file_list, fi, file_ids, file_nodes, file_refs>>
vars == <<normVars, graphVars, sceneVars, gdVars, projVars, fileVars>>

----------------------------------------------------------------------------
(* Characters and strings                                                  *)

DQ == "\""
SQ == "'"
SP == " "
SL == "/"

\* Python's None, where the code returns Optional[str].
None == <<"None">>

ResPrefix == <<"r", "e", "s", ":", "/", "/">>
UidPrefix == <<"u", "i", "d", ":", "/", "/">>

\* Characters str.strip() removes: the space and the line feed (the only
\* whitespace characters of the strings modelled here).
Whitespace == {SP, "\n"}

RECURSIVE lstrip(_, _)
lstrip(s, cs) ==
    IF s # <<>> /\ Head(s) \in cs THEN lstrip(Tail(s), cs) ELSE s

RECURSIVE rstrip(_, _)
rstrip(s, cs) ==
    IF s # <<>> /\ s[Len(s)] \in cs THEN rstrip(SubSeq(s, 1, Len(s) - 1), cs) ELSE s

strip(s, cs) == rstrip(lstrip(s, cs), cs)

startswith(s, p) == Len(s) >= Len(p) /\ SubSeq(s, 1, Len(p)) = p

endswith(s, p) == Len(s) >= Len(p) /\ SubSeq(s, Len(s) - Len(p) + 1, Len(s)) = p

DropFirst(s, n) == SubSeq(s, n + 1, Len(s))

\* str.split("/"): the pieces between separators, empty ones included.
RECURSIVE SplitAcc(_, _, _)
SplitAcc(s, cur, acc) ==
    IF s = <<>> THEN Append(acc, cur)
    ELSE IF Head(s) = SL THEN SplitAcc(Tail(s), <<>>, Append(acc, cur))
    ELSE SplitAcc(Tail(s), Append(cur, Head(s)), acc)

split(s) == SplitAcc(s, <<>>, <<>>)

\* "/".join(parts)
RECURSIVE join(_)
join(parts) ==
    IF parts = <<>> THEN <<>>
    ELSE IF Len(parts) = 1 THEN parts[1]
    ELSE parts[1] \o <<SL>> \o join(Tail(parts))

----------------------------------------------------------------------------
(* pathlib: Path.__truediv__, Path.resolve, relative_to, as_posix          *)

Dot == <<".">>
DotDot == <<".", ".">>

\* os.path.realpath without symbolic links: empty and "." components are
\* skipped, ".." removes the last component (and stays at "/").
RECURSIVE resolve_parts(_, _)
resolve_parts(todo, done) ==
    IF todo = <<>> THEN done
    ELSE LET c == Head(todo) IN
         IF c = <<>> \/ c = Dot THEN resolve_parts(Tail(todo), done)
         ELSE IF c = DotDot
              THEN resolve_parts(Tail(todo),
                                 IF done = <<>> THEN done
                                 ELSE SubSeq(done, 1, Len(done) - 1))
              ELSE resolve_parts(Tail(todo), Append(done, c))

\* (base_dir / s).resolve(): an absolute s replaces base_dir.
resolve_under(dir, s) ==
    IF startswith(s, <<SL>>) THEN resolve_parts(split(s), <<>>)
    ELSE resolve_parts(split(s), dir)

is_relative_to(p, root) == Len(p) >= Len(root) /\ SubSeq(p, 1, Len(root)) = root

\* p.relative_to(project_root).as_posix(); "." for the root itself.
relative_posix(p, root) ==
    IF Len(p) = Len(root) THEN Dot ELSE join(DropFirst(p, Len(root)))

\* to_res_path raises ValueError (ok = FALSE) when p is not under the root.
to_res_path(root, p) ==
    IF ~is_relative_to(p, root) THEN [ok |-> FALSE, val |-> <<>>]
    ELSE LET rel == relative_posix(p, root) IN
         [ok |-> TRUE,
          val |-> IF rel = Dot THEN ResPrefix
                  ELSE ResPrefix \o (IF startswith(rel, <<SL>>) THEN rel
                                     ELSE <<SL>> \o rel)]

\* Directories: the project root /p, a directory below it, one outside it.
RootDir == << <<"p">> >>
SubDir == << <<"p">>, <<"a">> >>
OutDir == << <<"q">> >>

\* s = raw.strip().strip('"').strip("'")
dequote(r) == strip(strip(strip(r, Whitespace), {DQ}), {SQ})

\* Faulty variant of normalize_res_like_path: a path outside the project root
\* is dropped (empty result) instead of being kept.
normalize_dropping_miss(r, dir, root) ==
    LET s == dequote(r) IN
    IF s = <<>> THEN s
    ELSE IF startswith(s, UidPrefix) THEN s
    ELSE IF startswith(s, ResPrefix)
         THEN LET tail == lstrip(DropFirst(s, Len(ResPrefix)), {SL}) IN
              IF tail # <<>> THEN ResPrefix \o <<SL>> \o tail ELSE ResPrefix
    ELSE LET res == to_res_path(root, resolve_under(dir, s)) IN
         IF res.ok THEN res.val ELSE <<>>

\* Faulty variant of normalize_res_like_path: a res:// path is resolved like a
\* filesystem path below the containing directory, which drops "." and
\* "x/.." segments and makes the result depend on the directory.
normalize_resolving_res(r, dir, root) ==
    LET s == dequote(r) IN
    IF s = <<>> THEN s
    ELSE IF startswith(s, UidPrefix) THEN s
    ELSE LET t == IF startswith(s, ResPrefix)
                  THEN lstrip(DropFirst(s, Len(ResPrefix)), {SL}) ELSE s
             res == to_res_path(root, resolve_under(dir, t)) IN
         IF res.ok THEN res.val ELSE s

normalize_res_like_path(r, dir, root) ==
    LET s == dequote(r) IN
    IF s = <<>> THEN s
    ELSE IF startswith(s, UidPrefix) THEN s
    ELSE IF startswith(s, ResPrefix)
         THEN LET tail == lstrip(DropFirst(s, Len(ResPrefix)), {SL}) IN
              IF tail # <<>> THEN ResPrefix \o <<SL>> \o tail ELSE ResPrefix
    ELSE LET res == to_res_path(root, resolve_under(dir, s)) IN
         IF res.ok THEN res.val ELSE s

----------------------------------------------------------------------------
(* parse_script_value                                                      *)

ExtResourceOpen ==
    <<"E", "x", "t", "R", "e", "s", "o", "u", "r", "c", "e", "(", DQ>>
ExtResourceClose == <<DQ, ")">>

\* The value of a script / instance property, as the searches of
\* parse_script_value see it:
\*   is_null  v == "null"
\*   ext      EXTRESOURCE_ID_RE's group 1 or 2 (None: no match)
\*   res      RES_STR_RE's group 2 (None: no match)
\*   uid      UID_STR_RE's group 2 (None: no match)
\*   sub      "SubResource" in v
\*   text     v itself
PropValue(is_null, ext, res, uid, sub, text) ==
    [is_null |-> is_null, ext |-> ext, res |-> res, uid |-> uid,
     sub |-> sub, text |-> text]

\* dict.get(rid): None when rid is not a key.
table_get(table, rid) == IF rid \in DOMAIN table THEN table[rid] ELSE None

parse_script_value(v, table, dir, root) ==
    IF v.is_null THEN None
    ELSE IF v.ext # None
         THEN LET rid == strip(v.ext, Whitespace)
                  p == table_get(table, rid) IN
              IF rid = <<>> THEN None
              ELSE IF p # None /\ p # <<>>
                   THEN normalize_res_like_path(p, dir, root)
                   ELSE ExtResourceOpen \o rid \o ExtResourceClose
    ELSE IF v.res # None THEN normalize_res_like_path(v.res, dir, root)
    ELSE IF v.uid # None THEN v.uid
    ELSE IF v.sub THEN v.text
    ELSE None

\* No call of the pure functions is under way.
NoInput == [v |-> PropValue(TRUE, None, None, None, FALSE, <<>>), table |-> <<>>]

NormIdle ==
    /\ npc = "off"
    /\ raw = <<>>
    /\ base_dir = RootDir
    /\ project_root = RootDir
    /\ ret1 = None
    /\ ret2 = None
    /\ psv_in = NoInput
    /\ psv_ret = None

\* None, for a variable that otherwise holds a dict with string keys.
NoDict == ("<None>" :> <<>>)

\* No call of parse_tscn is under way.
SceneIdle ==
    /\ spc = "off"
    /\ scene_path = <<>>
    /\ scene_text = <<>>
    /\ nodes = <<>>
    /\ cur_node_hdr = NoDict
    /\ cur_node_props = NoDict
    /\ order = 0
    /\ ext_id_to_path = <<>>
    /\ connections = <<>>
    /\ warnings = <<>>
    /\ path_to_node = <<>>
    /\ scene_root = None
    /\ scene_references = {}

\* No call of parse_gd is under way.
GdIdle ==
    /\ epc = "off"
    /\ gd_lines = 0
    /\ gd_raw = <<>>
    /\ pending = <<>>
    /\ exports = <<>>
    /\ discarded = 0

\* No call of parse_project_godot is under way.
ProjIdle ==
    /\ ppc = "off"
    /\ proj_lines = <<>>
    /\ pi = 0
    /\ section = None
    /\ data = <<>>
    /\ block_key = <<>>
    /\ block = <<>>
    /\ bal = 0
    /\ proj_ret = <<>>

\* No call of the text-file parsers is under way.
FilesIdle ==
    /\ fpc = "off"
    /\ file_list = <<>>
    /\ fi = 0
    /\ file_ids = <<>>
    /\ file_nodes = 0
    /\ file_refs = <<>>

----------------------------------------------------------------------------
(* str.casefold and the order of sorted(..., key=str.casefold)             *)

UpperCase == <<"A", "B", "C", "D", "E", "F", "G", "H", "I", "J", "K", "L", "M",
               "N", "O", "P", "Q", "R", "S", "T", "U", "V", "W", "X", "Y", "Z">>
LowerCase == <<"a", "b", "c", "d", "e", "f", "g", "h", "i", "j", "k", "l", "m",
               "n", "o", "p", "q", "r", "s", "t", "u", "v", "w", "x", "y", "z">>
Digits == <<"0", "1", "2", "3", "4", "5", "6", "7", "8", "9">>

IndexIn(seq, c) == CHOOSE i \in 1..Len(seq) : seq[i] = c
IsIn(seq, c) == \E i \in 1..Len(seq) : seq[i] = c

\* The characters of the model.
Chars ==
    {UpperCase[i] : i \in 1..26} \cup {LowerCase[i] : i \in 1..26}
    \cup {Digits[i] : i \in 1..10}
    \cup {SP, DQ, SQ, "(", ")", "*", ".", SL, ":", "<", ">", "_"}

\* ord(c)
CodePoint ==
    [c \in Chars |->
        IF IsIn(UpperCase, c) THEN 64 + IndexIn(UpperCase, c)
        ELSE IF IsIn(LowerCase, c) THEN 96 + IndexIn(LowerCase, c)
        ELSE IF IsIn(Digits, c) THEN 47 + IndexIn(Digits, c)
        ELSE CASE c = SP -> 32 [] c = DQ -> 34 [] c = SQ -> 39 [] c = "(" -> 40
               [] c = ")" -> 41 [] c = "*" -> 42 [] c = "." -> 46 [] c = SL -> 47
               [] c = ":" -> 58 [] c = "<" -> 60 [] c = ">" -> 62 [] c = "_" -> 95]

ord(c) == CodePoint[c]

\* str.casefold, character by character (ASCII).
CaseFolded ==
    [c \in Chars |->
        IF IsIn(UpperCase, c) THEN LowerCase[IndexIn(UpperCase, c)] ELSE c]

casefold_char(c) == CaseFolded[c]

casefold(s) == [i \in 1..Len(s) |-> casefold_char(s[i])]

\* a <= b for Python strings: lexicographic by code point.
RECURSIVE str_le(_, _)
str_le(a, b) ==
    IF a = <<>> THEN TRUE
    ELSE IF b = <<>> THEN FALSE
    ELSE IF Head(a) = Head(b) THEN str_le(Tail(a), Tail(b))
    ELSE ord(Head(a)) < ord(Head(b))

\* sorted(S, key=casefold) of a set S: the sort is stable and a set is
\* iterated in no fixed order, so elements with equal keys may come out in
\* either order.  The set of the lists sorted() can return.
RECURSIVE sorted_by_casefold(_)
sorted_by_casefold(S) ==
    IF S = {} THEN {<<>>}
    ELSE LET least == {x \in S : \A y \in S : str_le(casefold(x), casefold(y))} IN
         UNION {{<<x>> \o q : q \in sorted_by_casefold(S \ {x})} : x \in least}

----------------------------------------------------------------------------
(* Graph helpers                                                           *)

EmptyDict == <<>>

\* d[k] = v
dict_set(d, k, v) == [x \in (DOMAIN d) \cup {k} |-> IF x = k THEN v ELSE d[x]]

\* d.setdefault(k, set()).add(v)
dict_add(d, k, v) ==
    dict_set(d, k, (IF k \in DOMAIN d THEN d[k] ELSE {}) \cup {v})

\* d.setdefault(k, set()).update(vs); the key is created even for no vs.
dict_add_all(d, k, vs) ==
    dict_set(d, k, (IF k \in DOMAIN d THEN d[k] ELSE {}) \cup vs)

\* for t in tgts: rev.setdefault(t, set()).add(src)
RECURSIVE rev_add_targets(_, _, _)
rev_add_targets(rev, src, tgts) ==
    IF tgts = {} THEN rev
    ELSE LET t == CHOOSE x \in tgts : TRUE IN
         rev_add_targets(dict_add(rev, t, src), src, tgts \ {t})

\* for src, tgts in edges.items(): ...  over the sources srcs still to visit
RECURSIVE rev_add_sources(_, _, _)
rev_add_sources(rev, e, srcs) ==
    IF srcs = {} THEN rev
    ELSE LET src == CHOOSE x \in srcs : TRUE IN
         rev_add_sources(rev_add_targets(rev, src, e[src]), e, srcs \ {src})

\* Faulty variant of build_reverse_index: rev[t] = {src}, so a target keeps
\* only the source seen last.
RECURSIVE rev_set_targets(_, _, _)
rev_set_targets(rev, src, tgts) ==
    IF tgts = {} THEN rev
    ELSE LET t == CHOOSE x \in tgts : TRUE IN
         rev_set_targets(dict_set(rev, t, {src}), src, tgts \ {t})

RECURSIVE rev_set_sources(_, _, _)
rev_set_sources(rev, e, srcs) ==
    IF srcs = {} THEN rev
    ELSE LET src == CHOOSE x \in srcs : TRUE IN
         rev_set_sources(rev_set_targets(rev, src, e[src]), e, srcs \ {src})

build_reverse_index_overwriting(e) == rev_set_sources(EmptyDict, e, DOMAIN e)

build_reverse_index(e) == rev_add_sources(EmptyDict, e, DOMAIN e)

----------------------------------------------------------------------------
(* generate_report: graph assembly, reverse index, unused list             *)

\* Total number of references the parsed files hold.
MaxRefs == 2

ResRoot == ResPrefix \o <<SL>>
SceneM == ResRoot \o <<"m", ".", "t", "s", "c", "n">>
ScriptA == ResRoot \o <<"a", ".", "g", "d">>
ScriptB == ResRoot \o <<"b", ".", "g", "d">>
ImageC == ResRoot \o <<"c", ".", "p", "n", "g">>
ImageCUpper == ResRoot \o <<"C", ".", "p", "n", "g">>
TresT == ResRoot \o <<"t", ".", "t", "r", "e", "s">>
UidU == UidPrefix \o <<"u">>

project_src ==
    <<"p", "r", "o", "j", "e", "c", "t", ":", "/", "/",
      "p", "r", "o", "j", "e", "c", "t", ".", "g", "o", "d", "o", "t">>

TscnExt == <<".", "t", "s", "c", "n">>
GdExt == <<".", "g", "d">>
TresExt == <<".", "t", "r", "e", "s">>

\* The on-disk inventories of the model.
Inventories ==
    {{SceneM, ScriptA, ScriptB, ImageC},
     {SceneM, ScriptA, ScriptB, ImageC, ImageCUpper, TresT}}

\* What a literal reference or an ext_resource of a file may point to.
RefTargets == {ScriptA, ScriptB, ImageC, UidU}
\* Script / instance values of a scene's nodes (UidU is no res:// path).
NodeRefTargets == {ScriptB, UidU}

\* Values of application/run/main_scene and of [autoload] in project.godot
\* (a missing key: None).
MainSceneRaw == <<"r", "e", "s", ":", "/", "/", "m", ".", "t", "s", "c", "n">>
AutoloadRaw == <<"*", "r", "e", "s", ":", "/", "/", "b", ".", "g", "d">>
\* The project settings of the model: <<main scene value, autoload values>>.
ProjectSettings ==
    {<<None, <<>> >>,
     <<MainSceneRaw, <<>> >>,
     <<MainSceneRaw, <<AutoloadRaw>> >>,
     <<None, <<AutoloadRaw>> >>,
     << <<>>, << <<>> >> >>}
EditorRefSets == {{}, {ImageC}}

ClassNames == {<<"X">>}

\* parse_project_godot, main scene: normalized when the key is present.
main_scene_of(value) ==
    IF value = None THEN None
    ELSE normalize_res_like_path(value, RootDir, RootDir)

\* parse_project_godot, autoloads: each value stripped, without its leading
\* "*", normalized.
autoload_of(val) ==
    LET vv == strip(val, Whitespace)
        v2 == IF startswith(vv, <<"*">>) THEN Tail(vv) ELSE vv IN
    normalize_res_like_path(v2, RootDir, RootDir)

autoloads_of(values) == [i \in 1..Len(values) |-> autoload_of(values[i])]

\* collect_files: the files with the extension, sorted by casefolded path.
collect_files(inventory, ext) ==
    CHOOSE q \in sorted_by_casefold({f \in inventory : endswith(casefold(f), ext)}) : TRUE

\* generate_report's three file lists, for each inventory of the model.
FileLists ==
    [inv \in Inventories |->
        [scenes |-> collect_files(inv, TscnExt),
         scripts |-> collect_files(inv, GdExt),
         tres_files |-> collect_files(inv, TresExt)]]

scenes == FileLists[resource_files].scenes
scripts == FileLists[resource_files].scripts
tres_files == FileLists[resource_files].tres_files

Range(q) == {q[i] : i \in 1..Len(q)}

\* Faulty variant of unused_candidates: the editor's references are not
\* excluded.
unused_candidates_no_exclusion(all_resources_set, used_set, auto_ignore) ==
    {r \in all_resources_set : r \notin used_set}

\* [r for r in all_resources_set if r not in used_set and r not in auto_ignore]
unused_candidates(all_resources_set, used_set, auto_ignore) ==
    {r \in all_resources_set : r \notin used_set /\ r \notin auto_ignore}

\* The class-identity pass: class_to_script (a later script replaces an
\* earlier one of the same class name), then an edge from every script whose
\* text holds another script's class name as a word.
class_to_script(results) ==
    [cn \in {results[i].class_name : i \in 1..Len(results)} \ {None} |->
        results[CHOOSE i \in 1..Len(results) :
                   /\ results[i].class_name = cn
                   /\ \A j \in (i + 1)..Len(results) : results[j].class_name # cn].res_path]

RECURSIVE add_class_edges(_, _, _)
add_class_edges(e, results, i) ==
    IF i > Len(results) THEN e
    ELSE LET sr == results[i]
             c2s == class_to_script(results)
             hits == {c2s[cn] : cn \in {c \in DOMAIN c2s : c # sr.class_name /\ c \in sr.words}} IN
         add_class_edges(IF hits = {} THEN e ELSE dict_add_all(e, sr.res_path, hits),
                         results, i + 1)

GraphIdle ==
    /\ gpc = "off"
    /\ main_scene = None
    /\ autoloads = <<>>
    /\ editor_refs = {}
    /\ resource_files = {}
    /\ script_results = <<>>
    /\ gi = 0
    /\ refs_left = 0
    /\ edges = EmptyDict
    /\ roots = {}
    /\ used_by = EmptyDict
    /\ unused = <<>>

\* generate_report up to line 876: the project settings, the editor's
\* references and the inventory are read; no edge yet.
InitGraph ==
    /\ gpc = "files"
    /\ \E ps \in ProjectSettings :
          /\ main_scene = main_scene_of(ps[1])
          /\ autoloads = autoloads_of(ps[2])
    /\ editor_refs \in EditorRefSets
    /\ resource_files \in Inventories
    /\ script_results = <<>>
    /\ gi = 0
    /\ refs_left = MaxRefs
    /\ edges = EmptyDict
    /\ roots = {}
    /\ used_by = EmptyDict
    /\ unused = <<>>

GraphOthers == <<normVars, sceneVars, gdVars, projVars, fileVars>>

\* for r in scene_results: the scene's references, and the res:// script and
\* instance paths of the nodes of its tree.
AddSceneEdges ==
    /\ gpc = "files"
    /\ gi < Len(scenes)
    /\ \E references \in SUBSET RefTargets, node_refs \in SUBSET NodeRefTargets :
          /\ Cardinality(references) + Cardinality(node_refs) <= refs_left
          /\ edges' = dict_set(edges, scenes[gi + 1],
                               references \cup {n \in node_refs : startswith(n, ResPrefix)})
          /\ refs_left' = refs_left - Cardinality(references) - Cardinality(node_refs)
    /\ gi' = gi + 1
    /\ UNCHANGED <<gpc, main_scene, autoloads, editor_refs, resource_files,
                   script_results, roots, used_by, unused>>
    /\ UNCHANGED GraphOthers

\* for sr in script_results: edges[sr.res_path] = set(sr.references)
AddScriptEdges ==
    /\ gpc = "files"
    /\ gi >= Len(scenes)
    /\ gi < Len(scenes) + Len(scripts)
    /\ LET path == scripts[gi - Len(scenes) + 1] IN
       \E references \in SUBSET RefTargets, cn \in ClassNames \cup {None},
          words \in SUBSET ClassNames :
          /\ Cardinality(references) <= refs_left
          /\ cn # None => cn \in words
          /\ edges' = dict_set(edges, path, references)
          /\ refs_left' = refs_left - Cardinality(references)
          /\ script_results' = Append(script_results,
                 [res_path |-> path, class_name |-> cn, words |-> words])
    /\ gi' = gi + 1
    /\ UNCHANGED <<gpc, main_scene, autoloads, editor_refs, resource_files,
                   roots, used_by, unused>>
    /\ UNCHANGED GraphOthers

\* for src, refs in tres_refs.items(): edges[src] = set(refs)
AddTresEdges ==
    /\ gpc = "files"
    /\ gi >= Len(scenes) + Len(scripts)
    /\ gi < Len(scenes) + Len(scripts) + Len(tres_files)
    /\ \E references \in SUBSET RefTargets :
          /\ Cardinality(references) <= refs_left
          /\ edges' = dict_set(edges, tres_files[gi - Len(scenes) - Len(scripts) + 1],
                               references)
          /\ refs_left' = refs_left - Cardinality(references)
    /\ gi' = gi + 1
    /\ UNCHANGED <<gpc, main_scene, autoloads, editor_refs, resource_files,
                   script_results, roots, used_by, unused>>
    /\ UNCHANGED GraphOthers

\* The project node: an edge to the main scene, if there is one, and to every
\* autoload; the same targets are the roots.
AddRoots ==
    /\ gpc = "files"
    /\ gi = Len(scenes) + Len(scripts) + Len(tres_files)
    /\ LET targets == (IF main_scene # None /\ main_scene # <<>>
                       THEN {main_scene} ELSE {}) \cup Range(autoloads) IN
       /\ edges' = dict_add_all(edges, project_src, targets)
       /\ roots' = targets
    /\ gpc' = "classes"
    /\ UNCHANGED <<main_scene, autoloads, editor_refs, resource_files,
                   script_results, gi, refs_left, used_by, unused>>
    /\ UNCHANGED GraphOthers

\* The class registry and the class-name edges.
AddClassEdges ==
    /\ gpc = "classes"
    /\ edges' = add_class_edges(edges, script_results, 1)
    /\ gpc' = "index"
    /\ UNCHANGED <<main_scene, autoloads, editor_refs, resource_files,
                   script_results, gi, refs_left, roots, used_by, unused>>
    /\ UNCHANGED GraphOthers

\* used_by = build_reverse_index(edges)
BuildIndex ==
    /\ gpc = "index"
    /\ used_by' = build_reverse_index(edges)
    /\ gpc' = "unused"
    /\ UNCHANGED <<main_scene, autoloads, editor_refs, resource_files,
                   script_results, gi, refs_left, edges, roots, unused>>
    /\ UNCHANGED GraphOthers

\* used_set, then unused = sorted([...], key=casefold)
ComputeUnused ==
    /\ gpc = "unused"
    /\ unused' \in sorted_by_casefold(
           unused_candidates(resource_files, (DOMAIN used_by) \cup roots, editor_refs))
    /\ gpc' = "done"
    /\ UNCHANGED <<main_scene, autoloads, editor_refs, resource_files,
                   script_results, gi, refs_left, edges, roots, used_by>>
    /\ UNCHANGED GraphOthers

NextGraph ==
    \/ AddSceneEdges
    \/ AddScriptEdges
    \/ AddTresEdges
    \/ AddRoots
    \/ AddClassEdges
    \/ BuildIndex
    \/ ComputeUnused

InitSpecGraph == InitGraph /\ NormIdle /\ SceneIdle /\ GdIdle /\ ProjIdle
    /\ FilesIdle

SpecGraph == InitSpecGraph /\ [][NextGraph]_vars

----------------------------------------------------------------------------
(* SpecNorm: the pure functions, applied to inputs drawn from bounded sets  *)

NormOthers == <<graphVars, sceneVars, gdVars, projVars, fileVars>>

\* Longest path body of a raw reference.
MaxBody == 4

BodyChars == {"a", ".", SL}

Bodies == UNION {[1..k -> BodyChars] : k \in 0..MaxBody}

\* Raw references: optional outer whitespace, optional quotes (matching,
\* or an opening one alone), optional whitespace inside the quotes, a form
\* prefix, a body.
Pads == {<<>>, <<SP>>}
QuotePairs == {<< <<>>, <<>> >>, << <<DQ>>, <<DQ>> >>, << <<SQ>>, <<SQ>> >>,
               << <<DQ>>, <<>> >>}
FormPrefixes == {<<>>, ResPrefix, UidPrefix}

RawInputs ==
    {o \o q[1] \o il \o f \o b \o ir \o q[2] \o o :
        o \in Pads, q \in QuotePairs, il \in Pads, ir \in Pads,
        f \in FormPrefixes, b \in Bodies}

ProjectRoots == {RootDir, SubDir}
BaseDirs == {RootDir, SubDir, OutDir}

\* Property values and LocalIdTables parse_script_value is applied to.
Id1 == <<"1">>
Id9 == <<"9">>
ResA == ResPrefix \o <<SL, "a">>
SubText == <<"S", "u", "b", "R", "e", "s", "o", "u", "r", "c", "e", "(", "1", ")">>
PropValues ==
    {PropValue(TRUE, None, None, None, FALSE, <<"n", "u", "l", "l">>)}
    \cup {PropValue(FALSE, e, r, u, sb, IF sb THEN SubText ELSE <<"x">>) :
            e \in {None, Id1, Id9, <<SP>>, <<SP>> \o Id9 \o <<SP>>},
            r \in {None, ResPrefix \o <<"a">>},
            u \in {None, UidPrefix \o <<"a">>},
            sb \in BOOLEAN}
IdTables ==
    {<<>>} \cup {(Id1 :> p) : p \in {ResA, <<>>, <<".", ".", SL, ".", ".", SL, "x">>}}

InitNorm ==
    /\ ret1 = None
    /\ ret2 = None
    /\ psv_ret = None
    /\ base_dir \in BaseDirs
    /\ project_root \in ProjectRoots
    /\ \/ /\ npc = "normalize"
          /\ raw \in RawInputs
          /\ psv_in = NoInput
       \/ /\ npc = "script_value"
          /\ raw = <<>>
          /\ psv_in \in [v : PropValues, table : IdTables]

\* normalize_res_like_path(raw, base_dir, project_root)
Normalize ==
    /\ npc = "normalize"
    /\ ret1' = normalize_res_like_path(raw, base_dir, project_root)
    /\ npc' = "normalized"
    /\ UNCHANGED <<raw, base_dir, project_root, ret2, psv_in, psv_ret>>
    /\ UNCHANGED NormOthers

\* normalize_res_like_path applied to its own result
Renormalize ==
    /\ npc = "normalized"
    /\ ret2' = normalize_res_like_path(ret1, base_dir, project_root)
    /\ npc' = "renormalized"
    /\ UNCHANGED <<raw, base_dir, project_root, ret1, psv_in, psv_ret>>
    /\ UNCHANGED NormOthers

\* parse_script_value(v, ext_id_to_path, base_dir, project_root)
ParseScriptValue ==
    /\ npc = "script_value"
    /\ psv_ret' = parse_script_value(psv_in.v, psv_in.table, base_dir, project_root)
    /\ npc' = "script_value_done"
    /\ UNCHANGED <<raw, base_dir, project_root, ret1, ret2, psv_in>>
    /\ UNCHANGED NormOthers

NextNorm == Normalize \/ Renormalize \/ ParseScriptValue

InitSpecNorm == InitNorm /\ GraphIdle /\ SceneIdle /\ GdIdle /\ ProjIdle
    /\ FilesIdle

SpecNorm == InitSpecNorm /\ [][NextNorm]_vars

----------------------------------------------------------------------------
(* Claims about the Path Normalizer (SpecNorm)                             *)

\* The raw reference is in project-relative form once dequoted.
IsProjectRelative(r) == startswith(dequote(r), ResPrefix)

\* The non-empty path segments of s.
Segments(s) == SelectSeq(split(s), LAMBDA c : c # <<>>)

\* What follows "res://" in a project-relative string.
ResTail(s) == DropFirst(s, Len(ResPrefix))

\* The raw reference is a filesystem path that resolves outside the root.
ResolvesOutside(r, dir, root) ==
    LET s == dequote(r) IN
    /\ s # <<>>
    /\ ~startswith(s, UidPrefix)
    /\ ~startswith(s, ResPrefix)
    /\ ~is_relative_to(resolve_under(dir, s), root)

\* C4 (as claimed): normalizing the result of a normalization returns it
\* unchanged, for every raw string, directory and project root.
C4_NormalizeIdempotent ==
    npc = "renormalized" => ret2 = ret1

\* C5: a project-relative raw reference normalizes to the same id under every
\* containing directory, and the id has exactly the path segments of the
\* (dequoted) reference, in the same order.
C5_ProjectRelativeKeepsSegments ==
    (npc = "normalized" /\ IsProjectRelative(raw)) =>
        /\ \A d \in BaseDirs :
              normalize_res_like_path(raw, d, project_root) = ret1
        /\ startswith(ret1, ResPrefix)
        /\ Segments(ResTail(ret1)) = Segments(ResTail(dequote(raw)))

\* C5 witness: a quoted res:// reference with two segments, one of them "..",
\* normalized from a directory that is not the project root.
C5_Witness ==
    /\ npc = "normalized"
    /\ IsProjectRelative(raw)
    /\ raw # dequote(raw)
    /\ base_dir # project_root
    /\ Len(Segments(ResTail(ret1))) = 2
    /\ DotDot \in {Segments(ResTail(ret1))[i] : i \in 1..2}

\* C6 (as claimed): a project-relative reference that names a file, with or
\* without redundant separators, normalizes to the id to_res_path gives that
\* file of the inventory.
C6_RedundantSeparatorsRemoved ==
    LET s == dequote(raw)
        segs == Segments(ResTail(s)) IN
    (/\ npc = "normalized"
     /\ IsProjectRelative(raw)
     /\ segs # <<>>
     /\ ~endswith(s, <<SL>>)
     /\ \A i \in 1..Len(segs) : segs[i] \notin {Dot, DotDot})
    => ret1 = to_res_path(project_root, project_root \o segs).val

\* The property value is ExtResource(id) with an id the table does not hold.
UnknownId(in) ==
    /\ ~in.v.is_null
    /\ in.v.ext # None
    /\ strip(in.v.ext, Whitespace) # <<>>
    /\ strip(in.v.ext, Whitespace) \notin DOMAIN in.table

UnknownIdKept ==
    (npc = "script_value_done" /\ UnknownId(psv_in)) =>
        /\ psv_ret = ExtResourceOpen \o strip(psv_in.v.ext, Whitespace)
                        \o ExtResourceClose
        /\ psv_ret \notin {None, <<>>}

\* C7 (as claimed): a path that resolves outside the project root is returned
\* as the original raw string, verbatim; an ExtResource(id) whose id has no
\* table entry gives a placeholder naming the id.
C7_MissKeptVerbatim ==
    /\ (npc = "normalized" /\ ResolvesOutside(raw, base_dir, project_root))
          => ret1 = raw
    /\ UnknownIdKept

\* C7 (amended): a path that resolves outside the project root is returned as
\* the raw string without its surrounding whitespace and quotes, which is not
\* empty; an ExtResource(id) whose id has no table entry gives a placeholder
\* naming the id, never None or the empty string.
C7_MissKeptVisible ==
    /\ (npc = "normalized" /\ ResolvesOutside(raw, base_dir, project_root))
          => (ret1 = dequote(raw) /\ ret1 # <<>>)
    /\ UnknownIdKept

\* C7 witness: a quoted relative path that leaves the project root.
C7_Witness ==
    /\ npc = "normalized"
    /\ ResolvesOutside(raw, base_dir, project_root)
    /\ base_dir = SubDir
    /\ Head(raw) = DQ
    /\ startswith(dequote(raw), DotDot)
    /\ ret1 = dequote(raw)

----------------------------------------------------------------------------
(* Claims about the Graph Assembler (SpecGraph)                            *)

\* Every id that occurs as a target of e.
TargetsOf(e) == UNION {e[src] : src \in DOMAIN e}

\* u is the transpose of e.
IsTranspose(u, e) ==
    /\ DOMAIN u = TargetsOf(e)
    /\ \A t \in DOMAIN u : u[t] = {src \in DOMAIN e : t \in e[src]}

\* C1: once the index is built it is the exact transpose of the reference
\* graph as it finally stands (file, project-root and class-name edges):
\* s is in UsageIndex[t] exactly when t is in ReferenceGraph[s].
C1_IndexIsTranspose ==
    gpc \in {"unused", "done"} => IsTranspose(used_by, edges)

\* C1 witness: an index in which one script is used by the project node, by a
\* scene and by another script.
C1_Witness ==
    /\ gpc = "unused"
    /\ ScriptB \in DOMAIN used_by
    /\ {project_src, SceneM, ScriptA} \subseteq used_by[ScriptB]

\* The targets of the project node: the main scene, if any, and the autoloads.
RootTargets ==
    (IF main_scene # None /\ main_scene # <<>> THEN {main_scene} ELSE {})
    \cup Range(autoloads)

ExpectedUnused ==
    (resource_files \ ((DOMAIN used_by) \cup RootTargets)) \ editor_refs

\* The example of the claim: main scene m.tscn -> a.gd -> b.gd and c.png on
\* disk, nothing else.
ChainExample ==
    /\ main_scene = SceneM
    /\ autoloads = <<>>
    /\ editor_refs = {}
    /\ resource_files = {SceneM, ScriptA, ScriptB, ImageC}
    /\ DOMAIN edges = {SceneM, ScriptA, ScriptB, project_src}
    /\ edges[project_src] = {SceneM}
    /\ edges[SceneM] = {ScriptA}
    /\ edges[ScriptA] = {ScriptB}
    /\ edges[ScriptB] = {}

\* C2: the unused list holds exactly the inventory minus the index keys and
\* root targets minus the editor's references, each once, in case-insensitive
\* order; in the example of the claim it is [c.png].
C2_UnusedList ==
    gpc = "done" =>
        /\ Range(unused) = ExpectedUnused
        /\ Len(unused) = Cardinality(ExpectedUnused)
        /\ \A i, j \in 1..Len(unused) :
              i < j => str_le(casefold(unused[i]), casefold(unused[j]))
        /\ ChainExample => unused = <<ImageC>>

\* C2 witness: the example of the claim, with its unused list.
C2_Witness ==
    /\ gpc = "done"
    /\ ChainExample
    /\ unused = <<ImageC>>

\* The ids reachable from the set seen by following edges of e.
RECURSIVE ReachableFrom(_, _)
ReachableFrom(seen, e) ==
    LET more == UNION {e[src] : src \in seen \cap DOMAIN e} IN
    IF more \subseteq seen THEN seen ELSE ReachableFrom(seen \cup more, e)

\* C3 (as claimed): a resource on disk is in the unused list exactly when it
\* is not excluded and no path of edges leads to it from a root target.
C3_UnusedIffUnreachable ==
    gpc = "done" =>
        \A r \in resource_files :
            r \in Range(unused)
                <=> (r \notin editor_refs /\ r \notin ReachableFrom(RootTargets, edges))

----------------------------------------------------------------------------
(* parse_tscn                                                              *)

\* A line of the scene text after raw.strip(), as HEADING_RE, KV_RE and the
\* property split see it:
\*   shape  "heading" (HEADING_RE matches), "property" (no heading, holds
\*          "="), "skip" (empty, or starting with ";")
\*   kind   HEADING_RE's group 1
\*   attrs  KV_RE's matches in group 2, in order: [k, v], v as written
\*   key    k.strip() of a property line
\*   value  v.strip() of a property line, as a PropValue
Line(shape, kind, attrs, key, value) ==
    [shape |-> shape, kind |-> kind, attrs |-> attrs, key |-> key,
     value |-> value]

Attr(k, v) == [k |-> k, v |-> v]

Quoted(s) == <<DQ>> \o s \o <<DQ>>

NoValue == PropValue(TRUE, None, None, None, FALSE, <<>>)

\* parse_header_kv: a value that starts and ends with a double quote loses
\* both; a later match of a key replaces an earlier one.
RECURSIVE parse_header_kv(_)
parse_header_kv(attrs) ==
    IF attrs = <<>> THEN <<>>
    ELSE LET out == parse_header_kv(SubSeq(attrs, 1, Len(attrs) - 1))
             m == attrs[Len(attrs)]
             v == IF startswith(m.v, <<DQ>>) /\ endswith(m.v, <<DQ>>)
                  THEN SubSeq(m.v, 2, Len(m.v) - 1)
                  ELSE m.v
         IN [k \in (DOMAIN out) \cup {m.k} |-> IF k = m.k THEN v ELSE out[k]]

\* dict.get(k, default)
dict_get(d, k, default) == IF k \in DOMAIN d THEN d[k] ELSE default

\* bool(s) of an Optional[str]
truthy(s) == s # None /\ s # <<>>

SceneConnection(signal, from_path, to_path, method) ==
    [signal |-> signal, from_path |-> from_path, to_path |-> to_path,
     method |-> method]

\* Faulty variant of connection_complete: method is not required.
connection_complete_without_method(sig, frm, to, method) ==
    truthy(sig) /\ truthy(frm) /\ truthy(to)

\* if sig and frm and to and method
connection_complete(sig, frm, to, method) ==
    truthy(sig) /\ truthy(frm) /\ truthy(to) /\ truthy(method)

NoLine == Line("skip", "", <<>>, "", NoValue)

\* A warning: its fixed text and the values formatted into it.
Warning(msg, line, about, parent) ==
    [msg |-> msg, line |-> line, about |-> about, parent |-> parent]

MalformedConnection == "Malformed connection heading"
NoNodeBlocks == "No [node ...] blocks found"
NodeHasNoParent == "Node has no parent"
MissingParent == "Missing parent"

\* flush_node: the node list and the next index after it.
\* A flush that never appends the pending node.
flushed_nodes_never == nodes

flushed_nodes ==
    IF cur_node_hdr # NoDict /\ cur_node_props # NoDict
    THEN Append(nodes, [hdr |-> cur_node_hdr, props |-> cur_node_props,
                        idx |-> order])
    ELSE nodes

flushed_order ==
    IF cur_node_hdr # NoDict /\ cur_node_props # NoDict THEN order + 1 ELSE order

\* str(n) of a natural number
RECURSIVE str_int(_)
str_int(n) ==
    IF n < 10 THEN <<Digits[n + 1]>>
    ELSE str_int(n \div 10) \o <<Digits[(n % 10) + 1]>>

unnamed(idx) ==
    <<"<", "u", "n", "n", "a", "m", "e", "d", "_">> \o str_int(idx) \o <<">">>

RootDefault == <<"<", "R", "O", "O", "T", ">">>
TypeDefault == <<"N", "o", "d", "e">>

SceneNode(name, type_name, parent_full, ord_, script_path, instance_path) ==
    [name |-> name, type_name |-> type_name, parent_full |-> parent_full,
     order |-> ord_, script_path |-> script_path,
     instance_path |-> instance_path, children |-> <<>>]

\* A lookup that finds no key: every heading makes a node of its own.
path_index_absent(ptn, path) == 0

\* The position of a key in path_to_node, 0 when it is not a key.
path_index(ptn, path) ==
    LET S == {i \in 1..Len(ptn) : ptn[i].path = path}
    IN IF S = {} THEN 0 ELSE CHOOSE i \in S : TRUE

\* path_to_node.get(path) of a key that is present
node_at(ptn, path) == ptn[path_index(ptn, path)].node

\* The body of the loop over nodes: the node's full path is computed and the
\* node created, or the node already at that path overwritten in place.  No
\* heading of the modelled files carries an instance attribute.
declare(ptn, n, root_name, ext_norm, dir, proot) ==
    LET name == dict_get(n.hdr, "name", unnamed(n.idx))
        parent_raw == dict_get(n.hdr, "parent", None)
        type_name == dict_get(n.hdr, "type", TypeDefault)
        parent_full ==
            IF n.idx = 0 THEN None
            ELSE IF ~truthy(parent_raw) \/ parent_raw = <<".">> THEN root_name
            ELSE root_name \o <<SL>> \o parent_raw
        full_path ==
            IF n.idx = 0 THEN root_name ELSE parent_full \o <<SL>> \o name
        script_path ==
            IF "script" \in DOMAIN n.props
            THEN parse_script_value(n.props["script"], ext_norm, dir, proot)
            ELSE None
        i == path_index(ptn, full_path)
        fresh == SceneNode(name, type_name, parent_full, n.idx, script_path, None)
    IN IF i = 0 THEN Append(ptn, [path |-> full_path, node |-> fresh])
       ELSE [ptn EXCEPT ![i].node =
                [fresh EXCEPT !.children = ptn[i].node.children]]

RECURSIVE declare_all(_, _, _, _, _, _, _)
declare_all(ptn, ns, i, root_name, ext_norm, dir, proot) ==
    IF i > Len(ns) THEN ptn
    ELSE declare_all(declare(ptn, ns[i], root_name, ext_norm, dir, proot),
                     ns, i + 1, root_name, ext_norm, dir, proot)

\* A linking loop that hangs every node but the root under the root, its
\* parent found or not.
link_under_root(ptn, warns, i) ==
    [ptn |-> [ptn EXCEPT ![1].node.children =
                 [k \in 1..(Len(ptn) - 1) |-> ptn[k + 1].path]],
     warnings |-> warns]

\* A linking loop that attaches nothing and warns of nothing.
link_nothing(ptn, warns, i) == [ptn |-> ptn, warnings |-> warns]

\* The linking loop over path_to_node.items(): the root is the entry made
\* first; a node goes to the children of the node at its parent path.
RECURSIVE link_all(_, _, _)
link_all(ptn, warns, i) ==
    IF i > Len(ptn) THEN [ptn |-> ptn, warnings |-> warns]
    ELSE LET e == ptn[i]
             p == path_index(ptn, e.node.parent_full)
         IN IF i = 1 THEN link_all(ptn, warns, i + 1)
            ELSE IF ~truthy(e.node.parent_full)
            THEN link_all(ptn,
                          Append(warns, Warning(NodeHasNoParent, NoLine, e.path, <<>>)),
                          i + 1)
            ELSE IF p = 0
            THEN link_all(ptn,
                          Append(warns, Warning(MissingParent, NoLine, e.path,
                                                e.node.parent_full)),
                          i + 1)
            ELSE link_all([ptn EXCEPT ![p].node.children = Append(@, e.path)],
                          warns, i + 1)

\* list.sort(key=lambda c: c.order): stable insertion of each child in turn.
RECURSIVE insert_by_order(_, _, _)
insert_by_order(sorted, c, ptn) ==
    IF sorted = <<>> THEN <<c>>
    ELSE IF node_at(ptn, sorted[Len(sorted)]).order <= node_at(ptn, c).order
         THEN Append(sorted, c)
         ELSE Append(insert_by_order(SubSeq(sorted, 1, Len(sorted) - 1), c, ptn),
                     sorted[Len(sorted)])

RECURSIVE sort_by_order(_, _)
sort_by_order(cs, ptn) ==
    IF cs = <<>> THEN <<>>
    ELSE insert_by_order(sort_by_order(SubSeq(cs, 1, Len(cs) - 1), ptn),
                         cs[Len(cs)], ptn)

\* Faulty variant of sort_children: the children are left as linked, in the
\* order of the dict's keys.
sort_children_skipped(ptn) == ptn

sort_children(ptn) ==
    [i \in 1..Len(ptn) |->
        [ptn[i] EXCEPT !.node.children = sort_by_order(@, ptn)]]

\* RES_STR_RE / UID_STR_RE over one line: the quoted attribute values and the
\* property value that hold a reference form.
quoted_literals(line, prefix) ==
    {SubSeq(line.attrs[i].v, 2, Len(line.attrs[i].v) - 1) :
        i \in {j \in 1..Len(line.attrs) :
                 /\ Len(line.attrs[j].v) > Len(prefix) + 2
                 /\ startswith(line.attrs[j].v, <<DQ>> \o prefix)
                 /\ endswith(line.attrs[j].v, <<DQ>>)}}

res_literals(line) ==
    quoted_literals(line, ResPrefix)
    \cup (IF line.shape = "property" /\ line.value.res # None
          THEN {line.value.res} ELSE {})

uid_literals(line) ==
    quoted_literals(line, UidPrefix)
    \cup (IF line.shape = "property" /\ line.value.uid # None
          THEN {line.value.uid} ELSE {})

extract_res_uid_strings(lines, dir, proot) ==
    {normalize_res_like_path(p, dir, proot) :
        p \in UNION {res_literals(lines[i]) : i \in 1..Len(lines)}}
    \cup {strip(p, Whitespace) :
            p \in UNION {uid_literals(lines[i]) : i \in 1..Len(lines)}}

\* scene_path.parent
parent_dir(path) == SubSeq(path, 1, Len(path) - 1)

----------------------------------------------------------------------------
(* SpecScene, SpecConn: parse_tscn on the files of two scene paths          *)

\* Longest scene file, in lines.
MaxSceneLines == 4

TreeScenePath == RootDir \o << <<"t">> >>
ConnScenePath == RootDir \o << <<"c">> >>

NameA == <<"A">>
NameB == <<"B">>

NodeHeading(name_attr, parent_attr) ==
    Line("heading", "node", name_attr \o parent_attr, "", NoValue)

\* Node headings: no name, an empty one, A or B; no parent, "." or A.
NodeHeadings ==
    {NodeHeading(n, p) :
        n \in {<<>>} \cup {<<Attr("name", Quoted(x))>> : x \in {<<>>, NameA, NameB}},
        p \in {<<>>} \cup {<<Attr("parent", Quoted(x))>> : x \in {<<".">>, NameA}}}

ConnFields == <<"signal", "from", "to", "method">>

conn_attr(f, val, missing, empty) ==
    IF f \in missing THEN <<>>
    ELSE <<Attr(f, Quoted(IF f \in empty THEN <<>> ELSE val))>>

ConnHeading(sig, missing, empty) ==
    Line("heading", "connection",
         conn_attr("signal", sig, missing, empty)
         \o conn_attr("from", <<"A">>, missing, empty)
         \o conn_attr("to", <<".">>, missing, empty)
         \o conn_attr("method", <<"m">>, missing, empty),
         "", NoValue)

\* Connection headings: complete ones (two signals), and ones with one field
\* or every field missing, or one field empty.
ConnHeadings ==
    {ConnHeading(s, {}, {}) : s \in {<<"s">>, <<"t">>}}
    \cup {ConnHeading(<<"s">>, {ConnFields[i]}, {}) : i \in 1..4}
    \cup {ConnHeading(<<"s">>, {}, {ConnFields[i]}) : i \in 1..4}
    \cup {ConnHeading(<<"s">>, {ConnFields[i] : i \in 1..4}, {})}

ScriptPath == ResPrefix \o <<"a">>

ExtResourceLine ==
    Line("heading", "ext_resource",
         <<Attr("path", Quoted(ScriptPath)), Attr("id", Quoted(Id1))>>,
         "", NoValue)

OtherHeadingLine == Line("heading", "gd_scene", <<>>, "", NoValue)

ScriptPropertyLine ==
    Line("property", "", <<>>, "script",
         PropValue(FALSE, Id1, None, None, FALSE,
                   ExtResourceOpen \o Id1 \o ExtResourceClose))

BlankLine == Line("skip", "", <<>>, "", NoValue)

CommonLines == {ExtResourceLine, OtherHeadingLine, ScriptPropertyLine, BlankLine}

\* The lines of a file that declares a tree: every node heading, one
\* connection.
TreeFileLines == CommonLines \cup NodeHeadings \cup {ConnHeading(<<"s">>, {}, {})}

\* The lines of a file that declares connections: every connection heading,
\* one node.
ConnFileLines ==
    CommonLines \cup ConnHeadings
    \cup {NodeHeading(<<Attr("name", Quoted(NameA))>>, <<>>)}

\* read_text(scene_path).splitlines(): the lines a file at the path may hold.
LinesOf(path) == IF path = TreeScenePath THEN TreeFileLines ELSE ConnFileLines

InitScene ==
    /\ spc = "lines"
    /\ scene_text = <<>>
    /\ nodes = <<>>
    /\ cur_node_hdr = NoDict
    /\ cur_node_props = NoDict
    /\ order = 0
    /\ ext_id_to_path = <<>>
    /\ connections = <<>>
    /\ warnings = <<>>
    /\ path_to_node = <<>>
    /\ scene_root = None
    /\ scene_references = {}

SceneOthers == <<normVars, graphVars, gdVars, projVars, fileVars>>

\* The next line of the file, if it has one.
ReadLine(line) ==
    /\ spc = "lines"
    /\ Len(scene_text) < MaxSceneLines
    /\ line \in LinesOf(scene_path)
    /\ scene_text' = Append(scene_text, line)

\* if not line or line.startswith(";"): continue
SkipLine ==
    \E line \in LinesOf(scene_path) :
        /\ ReadLine(line)
        /\ line.shape = "skip"
        /\ UNCHANGED <<spc, scene_path, nodes, cur_node_hdr, cur_node_props,
                       order, ext_id_to_path, connections, warnings,
                       path_to_node, scene_root, scene_references>>
        /\ UNCHANGED SceneOthers

\* if kind == "ext_resource"
ExtResourceHeading ==
    \E line \in LinesOf(scene_path) :
        /\ ReadLine(line)
        /\ line.shape = "heading" /\ line.kind = "ext_resource"
        /\ LET kv == parse_header_kv(line.attrs)
               rid == dict_get(kv, "id", None)
               p == dict_get(kv, "path", None)
           IN ext_id_to_path' =
                  IF truthy(rid) /\ truthy(p)
                  THEN [k \in (DOMAIN ext_id_to_path) \cup {rid} |->
                           IF k = rid THEN p ELSE ext_id_to_path[k]]
                  ELSE ext_id_to_path
        /\ nodes' = flushed_nodes
        /\ order' = flushed_order
        /\ cur_node_hdr' = NoDict
        /\ cur_node_props' = NoDict
        /\ UNCHANGED <<spc, scene_path, connections, warnings, path_to_node,
                       scene_root, scene_references>>
        /\ UNCHANGED SceneOthers

\* if kind == "node"
NodeHeadingLine ==
    \E line \in LinesOf(scene_path) :
        /\ ReadLine(line)
        /\ line.shape = "heading" /\ line.kind = "node"
        /\ nodes' = flushed_nodes
        /\ order' = flushed_order
        /\ cur_node_hdr' = parse_header_kv(line.attrs)
        /\ cur_node_props' = <<>>
        /\ UNCHANGED <<spc, scene_path, ext_id_to_path, connections, warnings,
                       path_to_node, scene_root, scene_references>>
        /\ UNCHANGED SceneOthers

\* if kind == "connection"
ConnectionHeading ==
    \E line \in LinesOf(scene_path) :
        /\ ReadLine(line)
        /\ line.shape = "heading" /\ line.kind = "connection"
        /\ LET kv == parse_header_kv(line.attrs)
               sig == dict_get(kv, "signal", <<>>)
               frm == dict_get(kv, "from", <<>>)
               to == dict_get(kv, "to", <<>>)
               method == dict_get(kv, "method", <<>>)
           IN IF connection_complete(sig, frm, to, method)
              THEN /\ connections' =
                        Append(connections, SceneConnection(sig, frm, to, method))
                   /\ UNCHANGED warnings
              ELSE /\ warnings' =
                        Append(warnings, Warning(MalformedConnection, line, <<>>, <<>>))
                   /\ UNCHANGED connections
        /\ nodes' = flushed_nodes
        /\ order' = flushed_order
        /\ cur_node_hdr' = NoDict
        /\ cur_node_props' = NoDict
        /\ UNCHANGED <<spc, scene_path, ext_id_to_path, path_to_node, scene_root,
                       scene_references>>
        /\ UNCHANGED SceneOthers

\* Any other heading: flush_node(); continue
OtherHeading ==
    \E line \in LinesOf(scene_path) :
        /\ ReadLine(line)
        /\ line.shape = "heading"
        /\ line.kind \notin {"ext_resource", "node", "connection"}
        /\ nodes' = flushed_nodes
        /\ order' = flushed_order
        /\ cur_node_hdr' = NoDict
        /\ cur_node_props' = NoDict
        /\ UNCHANGED <<spc, scene_path, ext_id_to_path, connections, warnings,
                       path_to_node, scene_root, scene_references>>
        /\ UNCHANGED SceneOthers

\* if cur_node_props is not None and "=" in line
PropertyLine ==
    \E line \in LinesOf(scene_path) :
        /\ ReadLine(line)
        /\ line.shape = "property"
        /\ cur_node_props' =
               IF cur_node_props # NoDict
               THEN [k \in (DOMAIN cur_node_props) \cup {line.key} |->
                        IF k = line.key THEN line.value ELSE cur_node_props[k]]
               ELSE cur_node_props
        /\ UNCHANGED <<spc, scene_path, nodes, cur_node_hdr, order,
                       ext_id_to_path, connections, warnings, path_to_node,
                       scene_root, scene_references>>
        /\ UNCHANGED SceneOthers

\* The text is at its end and holds no node block.
NoNodes ==
    /\ spc = "lines"
    /\ flushed_nodes = <<>>
    /\ spc' = "done"
    /\ nodes' = flushed_nodes
    /\ order' = flushed_order
    /\ cur_node_hdr' = NoDict
    /\ cur_node_props' = NoDict
    /\ warnings' = Append(warnings, Warning(NoNodeBlocks, NoLine, <<>>, <<>>))
    /\ scene_root' = None
    /\ scene_references' = {}
    /\ UNCHANGED <<scene_path, scene_text, ext_id_to_path, connections, path_to_node>>
    /\ UNCHANGED SceneOthers

\* The text is at its end: the tree is built from the node blocks, its nodes
\* linked, the children sorted, the references collected.
BuildTree ==
    /\ spc = "lines"
    /\ flushed_nodes # <<>>
    /\ spc' = "done"
    /\ nodes' = flushed_nodes
    /\ order' = flushed_order
    /\ cur_node_hdr' = NoDict
    /\ cur_node_props' = NoDict
    /\ LET dir == parent_dir(scene_path)
           ext_id_to_path_norm ==
               [rid \in DOMAIN ext_id_to_path |->
                   normalize_res_like_path(ext_id_to_path[rid], dir, RootDir)]
           root_hdr == flushed_nodes[1].hdr
           root_name == dict_get(root_hdr, "name", RootDefault)
           root_type == dict_get(root_hdr, "type", TypeDefault)
           first == <<[path |-> root_name,
                       node |-> SceneNode(root_name, root_type, None,
                                          flushed_nodes[1].idx, None, None)]>>
           declared == declare_all(first, flushed_nodes, 1, root_name,
                                   ext_id_to_path_norm, dir, RootDir)
           linked == link_all(declared, warnings, 1)
       IN /\ path_to_node' = sort_children(linked.ptn)
          /\ warnings' = linked.warnings
          /\ scene_root' = root_name
          /\ scene_references' =
                 {ext_id_to_path_norm[rid] : rid \in DOMAIN ext_id_to_path}
                 \cup extract_res_uid_strings(scene_text, dir, RootDir)
    /\ UNCHANGED <<scene_path, scene_text, ext_id_to_path, connections>>
    /\ UNCHANGED SceneOthers

NextScene ==
    \/ SkipLine
    \/ ExtResourceHeading
    \/ NodeHeadingLine
    \/ ConnectionHeading
    \/ OtherHeading
    \/ PropertyLine
    \/ NoNodes
    \/ BuildTree

InitSpecScene ==
    InitScene /\ scene_path = TreeScenePath /\ NormIdle /\ GraphIdle /\ GdIdle /\ ProjIdle
    /\ FilesIdle

SpecScene == InitSpecScene /\ [][NextScene]_vars

InitSpecConn ==
    InitScene /\ scene_path = ConnScenePath /\ NormIdle /\ GraphIdle /\ GdIdle /\ ProjIdle
    /\ FilesIdle

SpecConn == InitSpecConn /\ [][NextScene]_vars

----------------------------------------------------------------------------
(* Claims about parse_tscn (SpecScene, SpecConn)                           *)

IsNodeLine(l) == l.shape = "heading" /\ l.kind = "node"
IsConnLine(l) == l.shape = "heading" /\ l.kind = "connection"

\* The node headings and the connection headings of the text, in file order.
NodeLines == SelectSeq(scene_text, IsNodeLine)
ConnLines == SelectSeq(scene_text, IsConnLine)

\* The heading writes attribute k with the quoted value x.
Declares(l, k, x) ==
    \E i \in 1..Len(l.attrs) : l.attrs[i].k = k /\ l.attrs[i].v = Quoted(x)

HasAttr(l, k) == \E i \in 1..Len(l.attrs) : l.attrs[i].k = k

\* The quoted value the heading writes for attribute k.
Written(l, k) ==
    LET i == CHOOSE j \in 1..Len(l.attrs) : l.attrs[j].k = k
    IN SubSeq(l.attrs[i].v, 2, Len(l.attrs[i].v) - 1)

\* The call has returned a tree for a text whose node headings are a root
\* followed by children that each declare parent=".".
RootWithDotChildren ==
    /\ spc = "done"
    /\ NodeLines # <<>>
    /\ \A i \in 2..Len(NodeLines) : Declares(NodeLines[i], "parent", <<".">>)

RootChildren == node_at(path_to_node, scene_root).children

\* The declaration indices of the root's children, as the list holds them.
ChildOrders ==
    [i \in 1..Len(RootChildren) |-> node_at(path_to_node, RootChildren[i]).order]

\* C8 as stated: a root heading followed by N child headings that each
\* declare parent="." gives a root with exactly N children, in ascending
\* declaration index, whatever the children's names are.
C8_AllChildrenKept ==
    RootWithDotChildren =>
        ChildOrders = [i \in 1..(Len(NodeLines) - 1) |-> i]

\* The name of the node declared by the i-th node heading.
DeclaredName(i) ==
    IF HasAttr(NodeLines[i], "name") THEN Written(NodeLines[i], "name")
    ELSE unnamed(i - 1)

\* The child headings whose name no later child heading repeats.
LastDeclarations ==
    {i \in 2..Len(NodeLines) :
        \A j \in (i + 1)..Len(NodeLines) : DeclaredName(j) # DeclaredName(i)}

HasNoParentWarning(w) == w.msg = NodeHasNoParent

\* C8, amended: under a root with a non-empty name the root has one child per
\* distinct child name (so exactly N for N pairwise distinct names), each
\* with the index of the last heading declaring the name, in ascending index;
\* under a root named "" no child is attached and each distinct name is
\* reported by one "Node has no parent" warning.
C8_DistinctChildrenKept ==
    RootWithDotChildren =>
        IF scene_root # <<>>
        THEN /\ \A i, j \in 1..Len(ChildOrders) : i < j => ChildOrders[i] < ChildOrders[j]
             /\ {ChildOrders[i] : i \in 1..Len(ChildOrders)}
                    = {i - 1 : i \in LastDeclarations}
        ELSE /\ RootChildren = <<>>
             /\ Len(SelectSeq(warnings, HasNoParentWarning))
                    = Cardinality(LastDeclarations)

\* Three children B, A and a nameless one under a named root: all three are
\* children, in file order although B sorts after A.
C8_Witness ==
    /\ RootWithDotChildren
    /\ Len(NodeLines) = 4
    /\ scene_root = NameA
    /\ DeclaredName(2) = NameB
    /\ DeclaredName(3) = NameA
    /\ DeclaredName(4) = unnamed(3)
    /\ ChildOrders = <<1, 2, 3>>

\* The connection heading lacks the field, or writes it empty.
Lacks(l, f) == ~HasAttr(l, f) \/ Declares(l, f, <<>>)

Malformed(l) == \E i \in 1..4 : Lacks(l, ConnFields[i])
Complete(l) == ~Malformed(l)

IsMalformedWarning(w) == w.msg = MalformedConnection

\* C9: each connection heading that lacks one of signal, from, to, method (or
\* has it empty) gives exactly one warning and no SceneConnection; each other
\* connection heading gives exactly one SceneConnection; both lists keep the
\* file's order.
C9_MalformedConnectionsWarned ==
    LET bad == SelectSeq(ConnLines, Malformed)
        good == SelectSeq(ConnLines, Complete)
    IN /\ SelectSeq(warnings, IsMalformedWarning)
              = [i \in 1..Len(bad) |-> Warning(MalformedConnection, bad[i], <<>>, <<>>)]
       /\ connections
              = [i \in 1..Len(good) |->
                    SceneConnection(Written(good[i], "signal"), Written(good[i], "from"),
                                    Written(good[i], "to"), Written(good[i], "method"))]

\* A heading without method between two complete ones: one warning, and the
\* two connections in file order.
C9_Witness ==
    /\ spc = "done"
    /\ Len(ConnLines) = 3
    /\ Complete(ConnLines[1])
    /\ ~HasAttr(ConnLines[2], "method")
    /\ Complete(ConnLines[3])
    /\ Written(ConnLines[1], "signal") = <<"t">>
    /\ Written(ConnLines[3], "signal") = <<"s">>
    /\ Len(SelectSeq(warnings, IsMalformedWarning)) = 1
    /\ Len(connections) = 2
    /\ connections[1].signal = <<"t">>
    /\ connections[2].signal = <<"s">>

----------------------------------------------------------------------------
(* parse_gd: the exported-variable pass                                    *)

AtExport == <<"@", "e", "x", "p", "o", "r", "t">>
VarWord == <<"v", "a", "r">>
SpVarSp == <<SP>> \o VarWord \o <<SP>>

\* s.find(pat) + 1: where pat first occurs in s, 0 when it does not.
find(s, pat) ==
    LET S == {i \in 1..(Len(s) - Len(pat) + 1) : SubSeq(s, i, i + Len(pat) - 1) = pat}
    IN IF S = {} THEN 0 ELSE CHOOSE i \in S : \A j \in S : i <= j

\* pat in s
contains(s, pat) == find(s, pat) # 0

\* s.split(pat, 1)
split_once(s, pat) ==
    LET i == find(s, pat)
    IN IF i = 0 THEN <<s>>
       ELSE <<SubSeq(s, 1, i - 1), SubSeq(s, i + Len(pat), Len(s))>>

IsIdentStart(c) == IsIn(UpperCase, c) \/ IsIn(LowerCase, c) \/ c = "_"
IsWordChar(c) == IsIdentStart(c) \/ IsIn(Digits, c)

\* The length of the longest prefix of \w characters.
RECURSIVE word_len(_)
word_len(s) ==
    IF s # <<>> /\ IsWordChar(Head(s)) THEN 1 + word_len(Tail(s)) ELSE 0

Match(name, vtype, default) ==
    [matched |-> TRUE, name |-> name, vtype |-> vtype, default |-> default]
NoMatch == [matched |-> FALSE, name |-> None, vtype |-> None, default |-> None]

\* VAR_DECL_RE.match(line): groups 1, 2, 3 (None for a group that took no
\* part):  ^\s*var\s+([A-Za-z_]\w*)\s*(?::\s*([^=]+))?\s*(?:=\s*(.*))?$
VAR_DECL_RE(line) ==
    LET t == lstrip(line, Whitespace)
        after_var == DropFirst(t, 3)
        id == lstrip(after_var, Whitespace)
        n == word_len(id)
        name == SubSeq(id, 1, n)
        tail == lstrip(DropFirst(id, n), Whitespace)
        eq == find(tail, <<"=">>)
        type_text == IF eq = 0 THEN DropFirst(tail, 1) ELSE SubSeq(tail, 2, eq - 1)
        vtype == IF lstrip(type_text, Whitespace) = <<>>
                 THEN <<type_text[Len(type_text)]>>
                 ELSE lstrip(type_text, Whitespace)
        default == IF eq = 0 THEN None
                   ELSE lstrip(DropFirst(tail, eq), Whitespace)
    IN IF ~(/\ startswith(t, VarWord)
            /\ after_var # <<>> /\ Head(after_var) \in Whitespace
            /\ id # <<>> /\ IsIdentStart(Head(id)))
       THEN NoMatch
       ELSE IF tail = <<>> THEN Match(name, None, None)
       ELSE IF Head(tail) = "=" THEN Match(name, None, default)
       ELSE IF Head(tail) = ":" /\ type_text # <<>> THEN Match(name, vtype, default)
       ELSE NoMatch

ExportedVar(decorators, name, vtype, default) ==
    [decorators |-> decorators, name |-> name, vtype |-> vtype,
     default |-> default]

\* (g or "").strip()
group_text(g) == IF g = None THEN <<>> ELSE strip(g, Whitespace)

export_record(decorators, mvar) ==
    ExportedVar(decorators, mvar.name, group_text(mvar.vtype),
                group_text(mvar.default))

\* len(pending) > 8
PendingLimit == 8

\* A pending list that is never cut.
bounded_never(p) == p

\* if len(pending) > 8: pending = pending[-2:]
bounded(p) == IF Len(p) > PendingLimit THEN SubSeq(p, Len(p) - 1, Len(p)) ELSE p

----------------------------------------------------------------------------
(* SpecGd: the exported-variable pass over the lines of a script            *)

\* Longest script, in lines.
MaxGdLines == 11

\* The lines a script may hold: a decorator on its own, @export with an
\* inline declaration (plain, with an inferred type, without a name),
\* declarations (plain, typed with a default, indented, with an inferred
\* type), another statement, an empty line, a comment.
GdLines ==
    {AtExport \o <<"_", "r">>,
     AtExport \o SpVarSp \o <<"x">>,
     AtExport \o SpVarSp \o <<"x", ":", "=", "1">>,
     AtExport \o <<SP>> \o VarWord,
     VarWord \o <<SP, "y">>,
     VarWord \o <<SP, "y", ":", "i", "=", "1">>,
     <<SP>> \o VarWord \o <<SP, "y">>,
     VarWord \o <<SP, "y", ":", "=", "1">>,
     <<"f">>,
     <<>>,
     <<"#">>}

InitGd ==
    /\ epc = "lines"
    /\ gd_lines = 0
    /\ gd_raw = <<>>
    /\ pending = <<>>
    /\ exports = <<>>
    /\ discarded = 0

GdOthers == <<normVars, graphVars, sceneVars, projVars, fileVars>>

\* The next line of the script, if it has one.
ReadGdLine(r) ==
    /\ epc = "lines"
    /\ gd_lines < MaxGdLines
    /\ gd_lines' = gd_lines + 1
    /\ gd_raw' = r

\* if not s or s.startswith("#"): continue
SkipGdLine ==
    \E r \in GdLines :
        LET s == strip(rstrip(r, Whitespace), Whitespace) IN
        /\ ReadGdLine(r)
        /\ s = <<>> \/ startswith(s, <<"#">>)
        /\ UNCHANGED <<epc, pending, exports, discarded>>
        /\ UNCHANGED GdOthers

\* A line starting with @export that holds no " var ": pending.append(s)
DecoratorLine ==
    \E r \in GdLines :
        LET s == strip(rstrip(r, Whitespace), Whitespace) IN
        /\ ReadGdLine(r)
        /\ startswith(s, AtExport)
        /\ ~contains(<<SP>> \o s \o <<SP>>, SpVarSp)
        /\ pending' = Append(pending, s)
        /\ UNCHANGED <<epc, exports, discarded>>
        /\ UNCHANGED GdOthers

\* A line starting with @export that holds " var ": the record carries the
\* line's own decorator, and pending is cleared.  parts[1] raises IndexError
\* when " var " is found only with the padding of f" {s} ".
InlineExportLine ==
    \E r \in GdLines :
        LET s == strip(rstrip(r, Whitespace), Whitespace)
            parts == split_once(s, SpVarSp)
        IN
        /\ ReadGdLine(r)
        /\ startswith(s, AtExport)
        /\ contains(<<SP>> \o s \o <<SP>>, SpVarSp)
        /\ IF Len(parts) < 2
           THEN /\ epc' = "raised"
                /\ UNCHANGED <<pending, exports>>
           ELSE LET deco_only == strip(parts[1], Whitespace)
                    rest == VarWord \o <<SP>> \o strip(parts[2], Whitespace)
                    mvar == VAR_DECL_RE(rest)
                IN /\ exports' = IF mvar.matched
                                 THEN Append(exports, export_record(<<deco_only>>, mvar))
                                 ELSE exports
                   /\ pending' = <<>>
                   /\ UNCHANGED epc
        /\ UNCHANGED discarded
        /\ UNCHANGED GdOthers

\* Any other line: with decorators pending, a declaration takes them all;
\* then the pending list is cut to its last two if longer than the limit.
StatementLine ==
    \E r \in GdLines :
        LET line == rstrip(r, Whitespace)
            s == strip(line, Whitespace)
            mvar == VAR_DECL_RE(line)
        IN
        /\ ReadGdLine(r)
        /\ s # <<>> /\ ~startswith(s, <<"#">>)
        /\ ~startswith(s, AtExport)
        /\ IF pending # <<>>
           THEN /\ exports' = IF mvar.matched
                              THEN Append(exports, export_record(pending, mvar))
                              ELSE exports
                /\ pending' = IF mvar.matched THEN <<>> ELSE bounded(pending)
           ELSE UNCHANGED <<pending, exports>>
        /\ discarded' = discarded + (Len(pending) - Len(pending'))
                          * (IF pending # <<>> /\ ~mvar.matched THEN 1 ELSE 0)
        /\ UNCHANGED epc
        /\ UNCHANGED GdOthers

\* The script is at its end.
EndOfScript ==
    /\ epc = "lines"
    /\ epc' = "done"
    /\ UNCHANGED <<gd_lines, gd_raw, pending, exports, discarded>>
    /\ UNCHANGED GdOthers

NextGd ==
    \/ SkipGdLine
    \/ DecoratorLine
    \/ InlineExportLine
    \/ StatementLine
    \/ EndOfScript

InitSpecGd == InitGd /\ NormIdle /\ GraphIdle /\ SceneIdle /\ ProjIdle
    /\ FilesIdle

SpecGd == InitSpecGd /\ [][NextGd]_vars

----------------------------------------------------------------------------
(* Claims about parse_gd (SpecGd)                                          *)

\* A GDScript variable declaration line: var, whitespace, an identifier.
IsDeclarationLine(l) ==
    LET t == lstrip(l, Whitespace)
        id == lstrip(DropFirst(t, 3), Whitespace)
    IN /\ startswith(t, VarWord \o <<SP>>)
       /\ id # <<>>
       /\ IsIdentStart(Head(id))

\* C10 as stated: when a variable declaration line is reached, all the
\* decorator lines pending at that point are attached to it, in order, as
\* one export record, and the pending list is then empty.
C10_DeclarationTakesPending ==
    [][(/\ epc = "lines"
        /\ gd_lines' = gd_lines + 1
        /\ IsDeclarationLine(gd_raw')
        /\ pending # <<>>)
       => (/\ pending' = <<>>
           /\ Len(exports') = Len(exports) + 1
           /\ exports'[Len(exports')].decorators = pending)]_vars

\* A line that is neither skipped (empty, comment) nor starts with @export:
\* the lines that reach the declaration test and the cut of pending.
IsPlainStatement(l) ==
    LET s == strip(rstrip(l, Whitespace), Whitespace) IN
    /\ s # <<>>
    /\ ~startswith(s, <<"#">>)
    /\ ~startswith(s, AtExport)

\* C11 as stated: after any line is processed at most 8 decorators are
\* pending, and no export record carries more than 8 decorators.
C11_AtMostLimitPending ==
    /\ Len(pending) <= PendingLimit
    /\ \A i \in 1..Len(exports) : Len(exports[i].decorators) <= PendingLimit

\* C11 amended: the pending list is cut only at a statement line that is no
\* declaration; after such a line at most 8 decorators are pending, and
\* a cut keeps two decorators, so it discards at least 8 - 1 of them.
C11_PendingCutAtStatement ==
    /\ (gd_lines > 0 /\ IsPlainStatement(gd_raw)) => Len(pending) <= PendingLimit
    /\ discarded > 0 => discarded >= PendingLimit - 1

\* Nine decorator lines, then a statement: seven discarded, two pending.
C11_Witness ==
    /\ IsPlainStatement(gd_raw)
    /\ gd_lines = 10
    /\ discarded = 7
    /\ Len(pending) = 2
    /\ exports = <<>>

----------------------------------------------------------------------------
(* parse_project_godot: the line loop over project.godot                    *)

BS == "\\"
LF == "\n"

\* A balance that counts every brace, quoted or not.
brace_delta_counting_all(s) ==
    Cardinality({k \in 1..Len(s) : s[k] = "{"})
        - Cardinality({k \in 1..Len(s) : s[k] = "}"})

\* The loop of _brace_delta_outside_quotes from character k on; in_q is ""
\* for None.
RECURSIVE brace_scan(_, _, _, _)
brace_scan(s, k, in_q, esc) ==
    IF k > Len(s) THEN 0
    ELSE IF esc THEN brace_scan(s, k + 1, in_q, FALSE)
    ELSE IF s[k] = BS THEN brace_scan(s, k + 1, in_q, TRUE)
    ELSE IF in_q # "" THEN
        brace_scan(s, k + 1, IF s[k] = in_q THEN "" ELSE in_q, FALSE)
    ELSE IF s[k] \in {DQ, SQ} THEN brace_scan(s, k + 1, s[k], FALSE)
    ELSE (IF s[k] = "{" THEN 1 ELSE IF s[k] = "}" THEN -1 ELSE 0)
             + brace_scan(s, k + 1, "", FALSE)

\* _brace_delta_outside_quotes(s)
brace_delta_outside_quotes(s) == brace_scan(s, 1, "", FALSE)

\* "\n".join(block)
RECURSIVE join_lines(_)
join_lines(b) ==
    IF Len(b) = 0 THEN <<>>
    ELSE IF Len(b) = 1 THEN b[1]
    ELSE b[1] \o <<LF>> \o join_lines(Tail(b))

\* The position of section s in data, 0 when it is none.
RECURSIVE section_index(_, _)
section_index(d, s) ==
    IF d = <<>> THEN 0
    ELSE IF d[Len(d)].name = s THEN Len(d)
    ELSE section_index(SubSeq(d, 1, Len(d) - 1), s)

\* data.setdefault(s, {})
setdefault(d, s) ==
    IF section_index(d, s) # 0 THEN d ELSE Append(d, [name |-> s, items |-> <<>>])

\* items[k] = v: a known key keeps its place.
item_set(items, k, v) ==
    IF \E j \in 1..Len(items) : items[j].k = k
    THEN [j \in 1..Len(items) |->
             IF items[j].k = k THEN [k |-> k, v |-> v] ELSE items[j]]
    ELSE Append(items, [k |-> k, v |-> v])

\* data.setdefault(s, {})[k] = v
data_put(d, s, k, v) ==
    LET d1 == setdefault(d, s) IN
    [d1 EXCEPT ![section_index(d1, s)].items = item_set(@, k, v)]

\* data.get(s, {})
data_get(d, s) ==
    IF section_index(d, s) = 0 THEN <<>> ELSE d[section_index(d, s)].items

\* if v.endswith("{") or v == "{"
opens_block(v) == endswith(v, <<"{">>) \/ v = <<"{">>

\* A block loop that runs to the end of the file whatever the balance.
in_block_to_eof(i, n, b) == i < n

\* while i < len(lines) and bal > 0
in_block(i, n, b) == i < n /\ b > 0

\* if "\n" not in v and v.startswith('"') and v.endswith('"'): v = v[1:-1]
one_liner(v) ==
    IF ~contains(v, <<LF>>) /\ startswith(v, <<DQ>>) /\ endswith(v, <<DQ>>)
    THEN SubSeq(v, 2, Len(v) - 1)
    ELSE v

ApplicationSection == <<"a", "p", "p", "l", "i", "c", "a", "t", "i", "o", "n">>
MainSceneKey == <<"r", "u", "n", "/", "m", "a", "i", "n", "_", "s", "c", "e", "n", "e">>
AutoloadSection == <<"a", "u", "t", "o", "l", "o", "a", "d">>
InputSection == <<"i", "n", "p", "u", "t">>

\* The values of a section, in the order of the table.
values_of(items) == [j \in 1..Len(items) |-> items[j].v]

\* Lines 239-255: the main scene, the autoloads and the input map.
derived(d) ==
    LET app == data_get(d, ApplicationSection)
        ms == {j \in 1..Len(app) : app[j].k = MainSceneKey}
    IN [main_scene |-> main_scene_of(IF ms = {} THEN None
                                     ELSE app[CHOOSE j \in ms : TRUE].v),
        autoloads |-> autoloads_of(values_of(data_get(d, AutoloadSection))),
        input_map |-> data_get(d, InputSection)]

----------------------------------------------------------------------------
(* SpecProj: one call of parse_project_godot on a project.godot             *)

\* Longest project.godot, in lines.
MaxProjLines == 4

\* The lines a project.godot may hold.
ProjLines ==
    {<<"[", "a", "u", "t", "o", "l", "o", "a", "d", "]">>,
     <<"[", "i", "n", "p", "u", "t", "]">>,
     <<"b", "=", DQ, "*", "r", "e", "s", ":", "/", "/", "b", DQ>>,
     <<"a", "=", "{">>,
     <<"}">>,
     <<DQ, "}", DQ>>,
     <<SQ, "{", SQ, "}">>,
     <<DQ, BS, DQ, "{", DQ, "}">>,
     <<>>}

ProjFiles == UNION {[1..n -> ProjLines] : n \in 0..MaxProjLines}

InitProj ==
    /\ ppc = "start"
    /\ proj_lines = <<>>
    /\ pi = 0
    /\ section = None
    /\ data = <<>>
    /\ block_key = <<>>
    /\ block = <<>>
    /\ bal = 0
    /\ proj_ret = <<>>

ProjOthers == <<normVars, graphVars, sceneVars, gdVars, fileVars>>

\* if not proj.exists(): return None, [], {}
ProjMissing ==
    /\ ppc = "start"
    /\ ppc' = "done"
    /\ proj_ret' = [main_scene |-> None, autoloads |-> <<>>, input_map |-> <<>>]
    /\ UNCHANGED <<proj_lines, pi, section, data, block_key, block, bal>>
    /\ UNCHANGED ProjOthers

\* lines = read_text(proj).splitlines()
ProjRead ==
    /\ ppc = "start"
    /\ ppc' = "top"
    /\ proj_lines' \in ProjFiles
    /\ UNCHANGED <<pi, section, data, block_key, block, bal, proj_ret>>
    /\ UNCHANGED ProjOthers

\* raw = lines[i]; line = raw.strip(); i += 1
TopLine ==
    /\ ppc = "top"
    /\ pi < Len(proj_lines)
    /\ pi' = pi + 1

\* line, once TopLine holds.
CurLine == strip(proj_lines[pi + 1], Whitespace)

\* k, v = line.split("=", 1); k = k.strip(); v = v.strip()
KeyOf(line) == strip(split_once(line, <<"=">>)[1], Whitespace)
ValueOf(line) ==
    LET parts == split_once(line, <<"=">>) IN
    IF Len(parts) < 2 THEN <<>> ELSE strip(parts[2], Whitespace)

IsSkipped(line) == line = <<>> \/ startswith(line, <<";">>)
IsSectionLine(line) == startswith(line, <<"[">>) /\ endswith(line, <<"]">>)
IsKeyLine(line) == truthy(section) /\ contains(line, <<"=">>)

\* if not line or line.startswith(";"): continue
ProjSkipLine ==
    /\ TopLine
    /\ \E line \in {CurLine} :
        /\ IsSkipped(line)
        /\ UNCHANGED <<ppc, proj_lines, section, data, block_key, block, bal,
                       proj_ret>>
        /\ UNCHANGED ProjOthers

\* A section heading: section = line[1:-1].strip(); data.setdefault(...)
ProjSectionLine ==
    /\ TopLine
    /\ \E line \in {CurLine} :
        /\ ~IsSkipped(line)
        /\ IsSectionLine(line)
        /\ section' = strip(SubSeq(line, 2, Len(line) - 1), Whitespace)
        /\ data' = setdefault(data, section')
        /\ UNCHANGED <<ppc, proj_lines, block_key, block, bal, proj_ret>>
        /\ UNCHANGED ProjOthers

\* key = value whose value is complete on its line: no block opens, or the
\* block loop does not run (balance not positive, or no line left).
ProjKeyLine ==
    /\ TopLine
    /\ \E line \in {CurLine} : \E k \in {KeyOf(line)} : \E v \in {ValueOf(line)} :
        /\ ~IsSkipped(line)
        /\ ~IsSectionLine(line)
        /\ IsKeyLine(line)
        /\ ~(opens_block(v)
              /\ in_block(pi + 1, Len(proj_lines), brace_delta_outside_quotes(v)))
        /\ data' = data_put(data, section, k, one_liner(v))
        /\ UNCHANGED <<ppc, proj_lines, section, block_key, block, bal,
                       proj_ret>>
        /\ UNCHANGED ProjOthers

\* key = value whose value opens a brace block that goes on.
ProjBlockOpen ==
    /\ TopLine
    /\ \E line \in {CurLine} : \E k \in {KeyOf(line)} : \E v \in {ValueOf(line)} :
        /\ ~IsSkipped(line)
        /\ ~IsSectionLine(line)
        /\ IsKeyLine(line)
        /\ opens_block(v)
        /\ in_block(pi + 1, Len(proj_lines), brace_delta_outside_quotes(v))
        /\ ppc' = "block"
        /\ block_key' = k
        /\ block' = <<v>>
        /\ bal' = brace_delta_outside_quotes(v)
        /\ UNCHANGED <<proj_lines, section, data, proj_ret>>
        /\ UNCHANGED ProjOthers

\* Any other line has no effect.
ProjOtherLine ==
    /\ TopLine
    /\ \E line \in {CurLine} :
        /\ ~IsSkipped(line)
        /\ ~IsSectionLine(line)
        /\ ~IsKeyLine(line)
        /\ UNCHANGED <<ppc, proj_lines, section, data, block_key, block, bal,
                       proj_ret>>
        /\ UNCHANGED ProjOthers

\* One turn of the block loop: nxt = lines[i]; i += 1; block.append(nxt);
\* bal += delta(nxt).  When the loop ends with it, the joined block is
\* stored as the value.
ProjBlockLine ==
    /\ ppc = "block"
    /\ LET nxt == proj_lines[pi + 1]
           block2 == Append(block, nxt)
           bal2 == bal + brace_delta_outside_quotes(nxt)
       IN /\ pi' = pi + 1
          /\ IF in_block(pi + 1, Len(proj_lines), bal2)
             THEN /\ block' = block2
                  /\ bal' = bal2
                  /\ UNCHANGED <<ppc, block_key, data>>
             ELSE /\ data' = data_put(data, section, block_key,
                                      one_liner(join_lines(block2)))
                  /\ ppc' = "top"
                  /\ block_key' = <<>>
                  /\ block' = <<>>
                  /\ bal' = 0
    /\ UNCHANGED <<proj_lines, section, proj_ret>>
    /\ UNCHANGED ProjOthers

\* while i < len(lines) is over.
ProjLoopEnd ==
    /\ ppc = "top"
    /\ pi = Len(proj_lines)
    /\ ppc' = "derive"
    /\ UNCHANGED <<proj_lines, pi, section, data, block_key, block, bal,
                   proj_ret>>
    /\ UNCHANGED ProjOthers

\* Lines 239-255: the derived facts are returned.
ProjReturn ==
    /\ ppc = "derive"
    /\ ppc' = "done"
    /\ proj_ret' = derived(data)
    /\ UNCHANGED <<proj_lines, pi, section, data, block_key, block, bal>>
    /\ UNCHANGED ProjOthers

\* The steps up to the end of the line loop.
ProjLoop ==
    \/ ProjMissing
    \/ ProjRead
    \/ ProjSkipLine
    \/ ProjSectionLine
    \/ ProjKeyLine
    \/ ProjBlockOpen
    \/ ProjOtherLine
    \/ ProjBlockLine
    \/ ProjLoopEnd

NextProj ==
    \/ ProjMissing
    \/ ProjRead
    \/ ProjSkipLine
    \/ ProjSectionLine
    \/ ProjKeyLine
    \/ ProjBlockOpen
    \/ ProjOtherLine
    \/ ProjBlockLine
    \/ ProjLoopEnd
    \/ ProjReturn

InitSpecProj == InitProj /\ NormIdle /\ GraphIdle /\ SceneIdle /\ GdIdle
    /\ FilesIdle

SpecProj == InitSpecProj /\ [][NextProj]_vars

\* The call is a sequential program: up to the end of the line loop, a
\* step that can be taken is taken.
SpecProjFair == SpecProj /\ WF_vars(ProjLoop)

----------------------------------------------------------------------------
(* Claims about parse_project_godot (SpecProj)                             *)

\* What precedes character k of s: the quote character of the quoted span
\* that is open there ("" outside every span), and whether character k is
\* escaped.  A quote character opens a span, the same quote character
\* closes it, a backslash escapes the character after it.
RECURSIVE before(_, _)
before(s, k) ==
    IF k = 1 THEN [q |-> "", esc |-> FALSE]
    ELSE LET p == before(s, k - 1)
             ch == s[k - 1]
         IN IF p.esc THEN [q |-> p.q, esc |-> FALSE]
            ELSE IF ch = BS THEN [q |-> p.q, esc |-> TRUE]
            ELSE IF p.q # "" THEN [q |-> IF ch = p.q THEN "" ELSE p.q, esc |-> FALSE]
            ELSE IF ch \in {DQ, SQ} THEN [q |-> ch, esc |-> FALSE]
            ELSE p

IsBrace(ch) == ch = "{" \/ ch = "}"

\* The positions of the brace characters of s inside a quoted span.
QuotedBraces(s) == {k \in 1..Len(s) : IsBrace(s[k]) /\ before(s, k).q # ""}

\* The unescaped brace characters of s outside every quoted span: opening
\* ones minus closing ones.
UnquotedBalance(s) ==
    LET out(c) == {k \in 1..Len(s) :
                      s[k] = c /\ before(s, k).q = "" /\ ~before(s, k).esc}
    IN Cardinality(out("{")) - Cardinality(out("}"))

\* s with its quoted brace characters taken for another character.
QuotedBracesAbsent(s) ==
    [k \in 1..Len(s) |-> IF k \in QuotedBraces(s) THEN "_" ELSE s[k]]

RECURSIVE BlockBalance(_)
BlockBalance(b) ==
    IF b = <<>> THEN 0
    ELSE UnquotedBalance(QuotedBracesAbsent(Head(b))) + BlockBalance(Tail(b))

ValueOn(j) == ValueOf(strip(proj_lines[j], Whitespace))

\* The line that opened the block which is open now.
BlockStart == pi - Len(block) + 1

SectionNames(d) == [j \in 1..Len(d) |-> d[j].name]
KeysOf(d, j) == {d[j].items[m].k : m \in 1..Len(d[j].items)}

\* C20: every line of project.godot is consumed exactly once, as a
\* top-level line or as a continuation of a brace block; the lines after a
\* block opener are appended verbatim while the balance is positive and
\* lines are left, they open no section and set no key of their own, a
\* section heading read at top level opens its section, and the loop
\* terminates with all lines consumed, also when a block is not closed.
C20_EveryLineConsumedOnce ==
    /\ [][ppc # "start" =>
              \/ pi' = pi + 1 /\ pi' <= Len(proj_lines)
              \/ ppc' = "derive" /\ pi' = pi /\ pi = Len(proj_lines)
              \/ ppc' = "done" /\ pi' = pi /\ pi = Len(proj_lines)]_vars
    /\ [](ppc = "block" =>
              /\ pi < Len(proj_lines)
              /\ bal > 0
              /\ Len(block) >= 1
              /\ block = <<ValueOn(BlockStart)>>
                             \o SubSeq(proj_lines, BlockStart + 1, pi))
    /\ [][ppc = "block" =>
              /\ section' = section
              /\ SectionNames(data') = SectionNames(data)
              /\ \A j \in 1..Len(data) :
                     KeysOf(data', j) \subseteq KeysOf(data, j) \cup {block_key}
              /\ ppc' = "top" =>
                     /\ \/ pi' = Len(proj_lines)
                        \/ bal + brace_delta_outside_quotes(proj_lines[pi']) <= 0
                     /\ \E e \in Range(data_get(data', section)) :
                            /\ e.k = block_key
                            /\ e.v = join_lines(Append(block, proj_lines[pi']))]_vars
    /\ [][(/\ ppc = "top"
           /\ pi < Len(proj_lines)
           /\ IsSectionLine(proj_lines[pi + 1]))
              => section' = SubSeq(proj_lines[pi + 1], 2, Len(proj_lines[pi + 1]) - 1)]_vars
    /\ [](ppc \in {"derive", "done"} => pi = Len(proj_lines) /\ block = <<>>)
    /\ <>(ppc \in {"derive", "done"})

\* A file whose block is never closed: the lines [autoload] and b=... after
\* a={ belong to the value of a, no autoload section exists, and the call
\* has returned.
C20_Witness ==
    /\ ppc = "done"
    /\ proj_lines = <<<<"[", "i", "n", "p", "u", "t", "]">>, <<"a", "=", "{">>, <<"[", "a", "u", "t", "o", "l", "o", "a", "d", "]">>, <<"b", "=", DQ, "*", "r", "e", "s", ":", "/", "/", "b", DQ>>>>
    /\ SectionNames(data) = <<InputSection>>
    /\ proj_ret.autoloads = <<>>
    /\ proj_ret.input_map
           = <<[k |-> <<"a">>,
                v |-> join_lines(<< <<"{">>, proj_lines[3], proj_lines[4]>>)]>>

----------------------------------------------------------------------------
(* Claims about the order of generate_report's lists (SpecGraph)           *)

\* C13 as stated: a run on the same file contents always produces the same
\* unused list: the list of a finished run is the only one that sorting the
\* unused set by casefold can give, whatever order the set is iterated in.
C13_SameInputSameUnusedList ==
    gpc = "done" => sorted_by_casefold(Range(unused)) = {unused}

\* C18 as stated: an empty normalization result is no reference: the empty
\* string is never a root, an edge target of the ReferenceGraph or a key
\* of the UsageIndex.
C18_EmptyIsNoReference ==
    /\ <<>> \notin roots
    /\ \A src \in DOMAIN edges : <<>> \notin edges[src]
    /\ <<>> \notin DOMAIN used_by

----------------------------------------------------------------------------
(* Claims about the tree of parse_tscn (SpecScene)                         *)

\* The name of the root, the parent path and the full path that the i-th
\* node heading of the text declares.
RootName ==
    IF HasAttr(NodeLines[1], "name") THEN Written(NodeLines[1], "name")
    ELSE RootDefault

ParentPath(i) ==
    IF \/ ~HasAttr(NodeLines[i], "parent")
       \/ Written(NodeLines[i], "parent") \in {<<>>, <<".">>}
    THEN RootName
    ELSE RootName \o <<SL>> \o Written(NodeLines[i], "parent")

FullPath(i) ==
    IF i = 1 THEN RootName ELSE ParentPath(i) \o <<SL>> \o DeclaredName(i)

\* The call has returned a tree.
TreeBuilt == spc = "done" /\ NodeLines # <<>>

\* The node heading that gave the entry its fields.
HeadingOf(e) == e.node.order + 1

\* The nodes that hold path among their children, one per child entry.
ParentsOf(path) ==
    {<<k, c>> \in (1..Len(path_to_node)) \X (1..Len(path_to_node)) :
        /\ c <= Len(path_to_node[k].node.children)
        /\ path_to_node[k].node.children[c] = path}

Attached(path) == ParentsOf(path) # {}

WarnedAbout(path) ==
    \E w \in Range(warnings) :
        w.about = path /\ w.msg \in {MissingParent, NodeHasNoParent}

PlaceOf(i) ==
    CHOOSE q \in 1..Len(scene_text) :
        /\ IsNodeLine(scene_text[q])
        /\ Cardinality({r \in 1..q : IsNodeLine(scene_text[r])}) = i

BlockLines(i) ==
    {q \in (PlaceOf(i) + 1)..Len(scene_text) :
        \A r \in (PlaceOf(i) + 1)..q : scene_text[r].shape # "heading"}

\* The LocalIdTable of the file, normalized.
ExtNorm ==
    [rid \in DOMAIN ext_id_to_path |->
        normalize_res_like_path(ext_id_to_path[rid], parent_dir(scene_path), RootDir)]

\* The script reference the block of the i-th node heading declares.
ScriptOf(i) ==
    LET S == {q \in BlockLines(i) :
                 scene_text[q].shape = "property" /\ scene_text[q].key = "script"}
    IN IF S = {} THEN None
       ELSE parse_script_value(scene_text[CHOOSE q \in S : \A r \in S : r <= q].value,
                               ExtNorm, parent_dir(scene_path), RootDir)

\* The last node heading that declares the full path.
LastHeading(path) ==
    CHOOSE i \in 1..Len(NodeLines) :
        /\ FullPath(i) = path
        /\ \A j \in (i + 1)..Len(NodeLines) : FullPath(j) # path

IsHeading(l) == l.shape = "heading"
Headings == SelectSeq(scene_text, IsHeading)

\* The properties of the block of the i-th node heading: per key, the value
\* of the last "key = value" line before the next heading of any kind.
PropsOf(i) ==
    LET P == {q \in BlockLines(i) : scene_text[q].shape = "property"}
    IN [k \in {scene_text[q].key : q \in P} |->
           scene_text[CHOOSE q \in P :
                          /\ scene_text[q].key = k
                          /\ \A r \in P : scene_text[r].key = k => r <= q].value]

\* A node is pending.
Pending == cur_node_hdr # NoDict

\* C19: the line loop has two states, no pending node and pending node.  A
\* node is pending exactly while a node heading is the most recent heading;
\* every heading flushes the pending node once; the flushed and the pending
\* nodes are the node headings in file order with indices 0, 1, 2, ...,
\* each with the "key = value" lines of its own block only.
C19_OneNodePerNodeHeading ==
    /\ [](/\ (cur_node_hdr = NoDict) <=> (cur_node_props = NoDict)
          /\ Pending <=> /\ spc = "lines"
                         /\ Headings # <<>>
                         /\ IsNodeLine(Headings[Len(Headings)])
          /\ Len(nodes) = Len(NodeLines) - (IF Pending THEN 1 ELSE 0)
          /\ order = Len(nodes)
          /\ \A i \in 1..Len(nodes) :
                 /\ nodes[i].idx = i - 1
                 /\ nodes[i].hdr = parse_header_kv(NodeLines[i].attrs)
                 /\ nodes[i].props = PropsOf(i)
          /\ Pending =>
                 /\ cur_node_hdr = parse_header_kv(NodeLines[Len(NodeLines)].attrs)
                 /\ cur_node_props = PropsOf(Len(NodeLines)))
    /\ [][(spc = "lines" /\ Len(Headings') = Len(Headings) + 1) =>
              /\ Pending =>
                     /\ nodes' = Append(nodes, [hdr |-> cur_node_hdr,
                                                props |-> cur_node_props,
                                                idx |-> order])
                     /\ order' = order + 1
              /\ ~Pending => nodes' = nodes /\ order' = order]_vars

\* A node heading, an ext_resource heading, a script property and a second
\* node heading: the first node is flushed with index 0 and without the
\* property, the second is pending.
C19_Witness ==
    /\ spc = "lines"
    /\ Len(scene_text) = 4
    /\ IsNodeLine(scene_text[1])
    /\ scene_text[2] = ExtResourceLine
    /\ scene_text[3] = ScriptPropertyLine
    /\ IsNodeLine(scene_text[4])
    /\ Len(nodes) = 1
    /\ nodes[1].idx = 0
    /\ DOMAIN nodes[1].props = {}
    /\ Pending
    /\ order = 1

\* The script and sub-scene references carried by the nodes of the tree
\* that are project paths (the ones generate_report adds to the edges).
NodeReferences ==
    {r \in {path_to_node[k].node.script_path : k \in 1..Len(path_to_node)}
          \cup {path_to_node[k].node.instance_path : k \in 1..Len(path_to_node)} :
        r # None /\ startswith(r, ResPrefix)}

\* C17 as stated: for every scene file, with or without a node heading, the
\* reference set is the union of the normalized LocalIdTable values, the
\* quoted res:// and uid:// literals of the text and the references carried
\* by the nodes.
C17_ReferencesAreUnion ==
    spc = "done" =>
        scene_references \cup NodeReferences
            = {ExtNorm[rid] : rid \in DOMAIN ExtNorm}
              \cup extract_res_uid_strings(scene_text, parent_dir(scene_path), RootDir)
              \cup NodeReferences

----------------------------------------------------------------------------
(* SpecFiles: parse_tscn and parse_tres_references, file after file        *)

\* Longest text file, in lines.
MaxFileLines == 3

RelPathA == <<"a">>
RelPathB == <<"b">>

\* [ext_resource path="a" id="1"] and [ext_resource path="b" id="1"]: one id,
\* two paths, neither a quoted res:// literal.
ExtResourceRel(p) ==
    Line("heading", "ext_resource",
         <<Attr("path", Quoted(p)), Attr("id", Quoted(Id1))>>, "", NoValue)

TextLines ==
    {ExtResourceRel(RelPathA), ExtResourceRel(RelPathB),
     NodeHeading(<<Attr("name", Quoted(NameA))>>, <<>>), ScriptPropertyLine}

TextFile(kind, lines) == [kind |-> kind, lines |-> lines]

\* scenes followed by tres_files: the two text files of a project, a scene
\* never after a text resource, none of them read yet.
TextFileLists ==
    {<<TextFile("tscn", <<>>), TextFile("tscn", <<>>)>>,
     <<TextFile("tscn", <<>>), TextFile("tres", <<>>)>>,
     <<TextFile("tres", <<>>), TextFile("tres", <<>>)>>}

\* The table of the call before, instead of a new one.
kept_ids == file_ids

\* ext_id_to_path: Dict[str, str] = {}
fresh_ids == <<>>

\* kv.get("id") and kv.get("path") of an ext_resource heading.
header_id(line) == dict_get(parse_header_kv(line.attrs), "id", None)
header_path(line) == dict_get(parse_header_kv(line.attrs), "path", None)

IsExtResource(line) == line.shape = "heading" /\ line.kind = "ext_resource"
IsNodeHeading(line) == line.shape = "heading" /\ line.kind = "node"

\* EXTRESOURCE_ID_RE.finditer(text): the ids that are not empty.
ext_uses(lines) ==
    {strip(lines[i].value.ext, Whitespace) :
        i \in {j \in 1..Len(lines) : /\ lines[j].shape = "property"
                                     /\ lines[j].value.ext # None}} \ {<<>>}

\* references / refs: the values of the table, the literals of the text and
\* what the ExtResource ids of the text resolve to.
refs_of(table, lines) ==
    {table[rid] : rid \in DOMAIN table}
    \cup extract_res_uid_strings(lines, RootDir, RootDir)
    \cup {table[rid] : rid \in ext_uses(lines) \cap DOMAIN table}

InitFiles ==
    /\ fpc = "start"
    /\ file_list = <<>>
    /\ fi = 0
    /\ file_ids = <<>>
    /\ file_nodes = 0
    /\ file_refs = <<>>

FilesOthers == <<normVars, graphVars, sceneVars, gdVars, projVars>>

\* scenes = collect_files(...); tres_files = collect_files(...)
CollectTextFiles ==
    /\ fpc = "start"
    /\ file_list' \in TextFileLists
    /\ fpc' = "call"
    /\ UNCHANGED <<fi, file_ids, file_nodes, file_refs>>
    /\ UNCHANGED FilesOthers

\* The file of the call under way.
CurFile == file_list[fi + 1]

\* parse_tscn(project_root, sp) / parse_tres_references(project_root, tp):
\* the locals of a new call.
CallParser ==
    /\ fpc = "call"
    /\ fi < Len(file_list)
    /\ fpc' = "scan"
    /\ file_ids' = fresh_ids
    /\ file_nodes' = 0
    /\ UNCHANGED <<file_list, fi, file_refs>>
    /\ UNCHANGED FilesOthers

\* The next line of the file, if it has one.
ScanLine(line) ==
    /\ fpc = "scan"
    /\ Len(CurFile.lines) < MaxFileLines
    /\ file_list' = [file_list EXCEPT ![fi + 1].lines = Append(@, line)]

\* An ext_resource heading: parse_tscn keeps the path as written,
\* parse_tres_references the normalized path.
ScanExtResource ==
    \E line \in TextLines :
    /\ ScanLine(line)
    /\ IsExtResource(line)
    /\ LET rid == header_id(line)
           p == header_path(line)
           stored == IF CurFile.kind = "tscn" THEN p
                     ELSE normalize_res_like_path(p, RootDir, RootDir)
       IN file_ids' =
              IF truthy(rid) /\ truthy(p)
              THEN [k \in (DOMAIN file_ids) \cup {rid} |->
                       IF k = rid THEN stored ELSE file_ids[k]]
              ELSE file_ids
    /\ UNCHANGED <<fpc, fi, file_nodes, file_refs>>
    /\ UNCHANGED FilesOthers

\* parse_tscn, a node heading: a block that the next flush appends to nodes.
ScanNodeHeading ==
    \E line \in TextLines :
    /\ ScanLine(line)
    /\ CurFile.kind = "tscn"
    /\ IsNodeHeading(line)
    /\ file_nodes' = file_nodes + 1
    /\ UNCHANGED <<fpc, fi, file_ids, file_refs>>
    /\ UNCHANGED FilesOthers

\* Every other line leaves the table alone.
ScanOtherLine ==
    \E line \in TextLines :
    /\ ScanLine(line)
    /\ ~IsExtResource(line)
    /\ CurFile.kind = "tscn" => ~IsNodeHeading(line)
    /\ UNCHANGED <<fpc, fi, file_ids, file_nodes, file_refs>>
    /\ UNCHANGED FilesOthers

\* The file has no more lines: the call returns.
Returns(refs) ==
    /\ file_refs' = Append(file_refs, refs)
    /\ fi' = fi + 1
    /\ fpc' = "call"
    /\ UNCHANGED <<file_list, file_ids, file_nodes>>
    /\ UNCHANGED FilesOthers

\* parse_tscn, if not nodes: return ... set()
ReturnNoNodes ==
    /\ fpc = "scan"
    /\ CurFile.kind = "tscn"
    /\ file_nodes = 0
    /\ Returns({})

\* parse_tscn: the table is normalized, then read.
ReturnSceneRefs ==
    /\ fpc = "scan"
    /\ CurFile.kind = "tscn"
    /\ file_nodes > 0
    /\ Returns(refs_of([rid \in DOMAIN file_ids |->
                           normalize_res_like_path(file_ids[rid], RootDir, RootDir)],
                       CurFile.lines))

\* parse_tres_references
ReturnTresRefs ==
    /\ fpc = "scan"
    /\ CurFile.kind = "tres"
    /\ Returns(refs_of(file_ids, CurFile.lines))

\* Both loops over the files are over.
FilesParsed ==
    /\ fpc = "call"
    /\ fi = Len(file_list)
    /\ fpc' = "done"
    /\ UNCHANGED <<file_list, fi, file_ids, file_nodes, file_refs>>
    /\ UNCHANGED FilesOthers

NextFiles ==
    \/ CollectTextFiles
    \/ CallParser
    \/ ScanExtResource
    \/ ScanNodeHeading
    \/ ScanOtherLine
    \/ ReturnNoNodes
    \/ ReturnSceneRefs
    \/ ReturnTresRefs
    \/ FilesParsed

InitSpecFiles ==
    InitFiles /\ NormIdle /\ GraphIdle /\ SceneIdle /\ GdIdle /\ ProjIdle

SpecFiles == InitSpecFiles /\ [][NextFiles]_vars

----------------------------------------------------------------------------
(* Claims about the LocalIdTable across files (SpecFiles)                  *)

\* What each line declares: the id and the path of an ext_resource heading
\* that gives both, and the reference literals the line holds.
Declaration ==
    [l \in TextLines |->
        [declares |-> /\ IsExtResource(l)
                      /\ truthy(header_id(l))
                      /\ truthy(header_path(l)),
         id |-> header_id(l),
         path |-> header_path(l),
         literals |-> extract_res_uid_strings(<<l>>, RootDir, RootDir)]]

\* The ext_resource headings among the first n lines of a file that declare
\* an id, and the path the last of them gives an id.
DeclaredIn(f, n) == {i \in 1..n : Declaration[f.lines[i]].declares}

OwnIds(f, n) == {Declaration[f.lines[i]].id : i \in DeclaredIn(f, n)}

OwnPath(f, n, rid) ==
    LET of_id == {i \in DeclaredIn(f, n) : Declaration[f.lines[i]].id = rid}
        last == CHOOSE i \in of_id : \A j \in of_id : j <= i
    IN Declaration[f.lines[last]].path

\* The normalized form of every path an ext_resource heading may give.
NormalizedPath ==
    [p \in {header_path(l) : l \in {x \in TextLines : IsExtResource(x)}} |->
        normalize_res_like_path(p, RootDir, RootDir)]

\* What a file's references are when only its own headings resolve its ids.
OwnRefs(f) ==
    IF f.kind = "tscn" /\ \A i \in 1..Len(f.lines) : ~IsNodeHeading(f.lines[i])
    THEN {}
    ELSE {NormalizedPath[OwnPath(f, Len(f.lines), rid)] :
              rid \in OwnIds(f, Len(f.lines))}
         \cup UNION {Declaration[f.lines[i]].literals : i \in 1..Len(f.lines)}

\* C14: the LocalIdTable is file-scoped. While a file is scanned the table
\* holds the ids of that file's own ext_resource headings, each with the
\* path of its last heading in that file (as written in a scene, normalized
\* in a text resource), and nothing of the files parsed before; every
\* file's reference set is the one its own
\* headings give, whatever was parsed before it, so equal files at different
\* places get equal results.
C14_TableIsFileScoped ==
    /\ fpc = "scan" =>
           /\ DOMAIN file_ids = OwnIds(CurFile, Len(CurFile.lines))
           /\ \A rid \in DOMAIN file_ids :
                  file_ids[rid] =
                      IF CurFile.kind = "tscn"
                      THEN OwnPath(CurFile, Len(CurFile.lines), rid)
                      ELSE NormalizedPath[OwnPath(CurFile, Len(CurFile.lines), rid)]
    /\ \A k \in 1..Len(file_refs) : file_refs[k] = OwnRefs(file_list[k])
    /\ \A j, k \in 1..Len(file_refs) :
           file_list[j] = file_list[k] => file_refs[j] = file_refs[k]

\* A scene declares id 1 as a and uses it, a text resource declares id 1 as
\* b and uses it: each got its own path.
C14_Witness ==
    /\ fpc = "done"
    /\ file_list =
           <<TextFile("tscn", <<ExtResourceRel(RelPathA),
                                NodeHeading(<<Attr("name", Quoted(NameA))>>, <<>>),
                                ScriptPropertyLine>>),
             TextFile("tres", <<ExtResourceRel(RelPathB), ScriptPropertyLine>>)>>
    /\ file_refs = <<{NormalizedPath[RelPathA]}, {NormalizedPath[RelPathB]}>>
    /\ file_refs[1] # file_refs[2]

----------------------------------------------------------------------------
(* Claims about the shape of the tree (SpecScene)                          *)

\* The children of the node at a path, as a set.
ChildrenOf(path) ==
    IF path_index(path_to_node, path) = 0 THEN {}
    ELSE Range(node_at(path_to_node, path).children)

\* Everything that n steps along the children lists reach from S.
RECURSIVE Descendants(_, _)
Descendants(S, n) ==
    IF n = 0 THEN S
    ELSE Descendants(S \cup UNION {ChildrenOf(q) : q \in S}, n - 1)

\* The proper descendants of the node at a path.
Below(path) == Descendants(ChildrenOf(path), Len(path_to_node))

\* The parent path the heading of an entry declares is no node's full path.
ParentMissing(e) ==
    \A j \in 1..Len(NodeLines) : FullPath(j) # ParentPath(HeadingOf(e))

\* C21: the children relation of a returned tree is a forest.  The root is
\* the first declared node, has no parent and is in no children list,
\* whatever parent attribute its heading carries; every children entry is a
\* node of the result; every node is in the children lists at most once
\* over all nodes; no node is among its own descendants; a node whose parent
\* path is not declared is warned about and in no children list, and no
\* unattached node other than the root, nor any of its descendants, is
\* reachable from the root.
C21_ChildrenAreForest ==
    TreeBuilt =>
        /\ scene_root = RootName
        /\ path_to_node[1].path = scene_root
        /\ path_to_node[1].node.order = 0
        /\ path_to_node[1].node.parent_full = None
        /\ ~Attached(scene_root)
        /\ \A k \in 1..Len(path_to_node) :
               LET e == path_to_node[k] IN
               /\ \A c \in Range(e.node.children) :
                      path_index(path_to_node, c) # 0
               /\ Cardinality(ParentsOf(e.path)) <= 1
               /\ e.path \notin Below(e.path)
               /\ (k > 1 /\ ParentMissing(e)) =>
                      ~Attached(e.path) /\ WarnedAbout(e.path)
               /\ (k > 1 /\ ~Attached(e.path)) =>
                      ({e.path} \cup Below(e.path))
                          \cap ({scene_root} \cup Below(scene_root)) = {}

\* The root B carries a parent attribute, A under the undeclared B/A is
\* left out with a warning, B under the root is the root's only child.
C21_Witness ==
    /\ TreeBuilt
    /\ NodeLines = <<NodeHeading(<<Attr("name", Quoted(NameB))>>,
                                 <<Attr("parent", Quoted(NameA))>>),
                     NodeHeading(<<Attr("name", Quoted(NameA))>>,
                                 <<Attr("parent", Quoted(NameA))>>),
                     NodeHeading(<<Attr("name", Quoted(NameB))>>, <<>>)>>
    /\ Len(path_to_node) = 3
    /\ ParentMissing(path_to_node[2])
    /\ ~Attached(path_to_node[2].path)
    /\ Below(scene_root) = {path_to_node[3].path}

====
